---- MODULE Spec2Model ----
(***************************************************************************)
(* auto-skeleton: the analysis-generation pipeline.                        *)
(*                                                                         *)
(*   ComponentAnalyzer (src/src/core/analyzer.ts)                           *)
(*   DOMmeasurer       (src/unnamed/part_000)                               *)
(*   useAutoSkeleton, SkeletonGenerator (src/src/components/AutoSkeleton.tsx)*)
(*                                                                         *)
(* Lengths are integers counted in 1/Scale of a CSS pixel, so that          *)
(* sub-pixel differences between two measurements can be told apart.        *)
(* Times are milliseconds.                                                  *)
(***************************************************************************)
EXTENDS Integers, Sequences, FiniteSets, TLC

VARIABLES
    \* ---- ComponentAnalyzer.analyzeComponent, one call ----
    config,             \* AnalysisEngineConfig of the analyzer and its measurer
    env,                \* what the host runtime provides
    componentRef,       \* the argument: a ref object (empty or not) or an element
    timeoutOption,      \* options.timeout (0: absent or 0, both falsy)
    pc,                 \* position of the call under way
    now,                \* Date.now()
    start,              \* waitForComponentReady: start
    lastDimensions,     \* waitForComponentReady: lastDimensions
    currentDimensions,  \* check: currentDimensions of the latest tick that measured
    dom,                \* the children of the root as the tree walk read them
    outcome,            \* what the promise settled with
    \* ---- one element handed to the measurer or to the classifier ----
    theElement,         \* the element
    theWindow,          \* innerWidth and innerHeight of the window
    isVisible,          \* DOMmeasurer.isElementVisible(theElement), once returned
    elementType,        \* ComponentAnalyzer.classifyElement(theElement)
    styles,             \* DOMmeasurer.extractStyles(theElement), once returned
    optimal,            \* DimensionCalculator's dimensions for theElement
    \* ---- useAutoSkeleton, one mounted hook ----
    hookRef,            \* componentRef: "null", or a ref "empty" or with an "element"
    isAnalyzing,        \* useState: isAnalyzing
    error,              \* useState: error (the code of the error, or Null)
    analysisResult,     \* useState: analysisResult (or Null)
    inFlight,           \* the analysis passes started and not yet settled
    passes,             \* the number of passes started so far
    lastCall,           \* the handler that ran last
    before,             \* the state regenerateSkeleton found when it ran last
    attached,           \* the ref has held an element
    regenerated,        \* regenerateSkeleton has been called
    callbacks,          \* how often the caller's onError and onAnalysisComplete ran
    settled,            \* how many passes of the hook rejected and resolved
    \* ---- withAutoSkeleton, withAutoSkeletonAdvanced around the hook ----
    wrapper,            \* what calls the hook: the caller or one of the two HOCs
    retryAttempts,      \* withAutoSkeletonAdvanced: options.retryAttempts
    retryCount,         \* withAutoSkeletonAdvanced: useState retryCount
    seen,               \* seen[p]: the retryCount in the closure that started pass p
    timers,             \* withAutoSkeletonAdvanced: the retry timers pending
    retries,            \* retries scheduled since the last pass that resolved
    \* ---- SkeletonGenerator.generateSkeleton, one call ----
    analysis,           \* analysisResult.elements, the argument
    options,            \* the AutoSkeletonOptions argument
    generation,         \* the SkeletonGenerationResult, once returned
    layout,             \* analysisResult.layout
    theme,              \* SkeletonGenerator: this.theme
    animation,          \* SkeletonGenerator: this.animation
    prefersReducedMotion, \* matchMedia('(prefers-reduced-motion: reduce)').matches
    updates,            \* the number of updateAnimation calls so far
    \* ---- injectSkeletonCSS and AnimationPresets.optimizeForPerformance ----
    document,           \* the global document: its head, or undefined
    injections,         \* the number of injectSkeletonCSS calls so far
    animationArg,       \* optimizeForPerformance: animation
    elementCount,       \* optimizeForPerformance: elementCount
    optimized           \* what optimizeForPerformance returned

analyzerVars == <<config, env, componentRef, timeoutOption, pc, now, start,
                  lastDimensions, currentDimensions, dom, outcome>>

elementVars == <<theElement, theWindow, isVisible, elementType, styles, optimal>>

hookVars == <<hookRef, isAnalyzing, error, analysisResult, inFlight, passes,
              lastCall, before, attached, regenerated, callbacks, settled, wrapper,
              retryAttempts, retryCount, seen, timers, retries>>

generatorVars == <<analysis, options, generation, layout, theme, animation,
                   prefersReducedMotion, updates>>

primitiveVars == <<document, injections, animationArg, elementCount, optimized>>

vars == <<analyzerVars, elementVars, hookVars, generatorVars, primitiveVars>>

Null == "null"
\* no measurement taken yet, no tree read yet
NoDimensions == [width |-> 0 - 1, height |-> 0 - 1]
NoTree == [parent |-> <<>>, el |-> <<>>]

(***************************************************************************)
(* Bounds of the model.                                                    *)
(***************************************************************************)
Scale == 2            \* length units per CSS pixel
FrameMs == 1000       \* shortest time between two animation frames
MaxNodes == 2         \* elements below the root in a rendered tree
MaxCfgDepth == 2      \* largest configured maxDepth besides the default
MaxPasses == 3        \* analysis passes one hook starts
MaxTopElements == 2   \* top-level elements of an analysis handed to the generator
MaxOverrides == 2     \* keys of customOverrides
MaxGenerationTime == 3  \* longest a call of generateSkeleton takes (ms)
MaxUpdates == 1       \* updateAnimation calls on one generator
MaxHead == 3          \* elements in a document head before anything is injected
MaxInjections == 2    \* injectSkeletonCSS calls on one document
MaxElementCount == 100  \* largest elementCount given to optimizeForPerformance

(***************************************************************************)
(* Program constants.                                                      *)
(***************************************************************************)
DefaultTimeout == 5000
DefaultMaxDepth == 10
DefaultMeasurementThreshold == 5
ViewportMargin == 100

Abs(x) == IF x < 0 THEN 0 - x ELSE x
Min(a, b) == IF a < b THEN a ELSE b
Max(a, b) == IF a > b THEN a ELSE b
Px(n) == n * Scale

(***************************************************************************)
(* Strings that the code searches or trims are sequences of one-character  *)
(* strings; Str turns one back into a string.                              *)
(***************************************************************************)
UpperCase == <<"A","B","C","D","E","F","G","H","I","J","K","L","M",
               "N","O","P","Q","R","S","T","U","V","W","X","Y","Z">>
LowerCase == <<"a","b","c","d","e","f","g","h","i","j","k","l","m",
               "n","o","p","q","r","s","t","u","v","w","x","y","z">>

toLowerCaseChar(c) ==
    IF \E i \in 1..26 : UpperCase[i] = c
    THEN LowerCase[CHOOSE i \in 1..26 : UpperCase[i] = c]
    ELSE c

toLowerCase(s) == [i \in 1..Len(s) |-> toLowerCaseChar(s[i])]

\* String.prototype.includes
includes(s, p) ==
    \E i \in 0..(Len(s) - Len(p)) : SubSeq(s, i + 1, i + Len(p)) = p

RECURSIVE trimStart(_)
trimStart(s) ==
    IF s # <<>> /\ Head(s) = " " THEN trimStart(Tail(s)) ELSE s

RECURSIVE trimEnd(_)
trimEnd(s) ==
    IF s # <<>> /\ s[Len(s)] = " " THEN trimEnd(SubSeq(s, 1, Len(s) - 1)) ELSE s

\* String.prototype.trim
trim(s) == trimEnd(trimStart(s))

RECURSIVE Str(_)
Str(s) == IF s = <<>> THEN "" ELSE Head(s) \o Str(Tail(s))

(***************************************************************************)
(* DOMmeasurer                                                             *)
(*                                                                         *)
(* An Element is a record                                                  *)
(*   tagName (lower case), id, svg (className is an SVGAnimatedString),     *)
(*   classList, role, textContent, visibility, display, opacity,           *)
(*   left, top, width, height (its bounding rectangle).                    *)
(***************************************************************************)
\* DOMmeasurer.measureElement
measureElement(element) ==
    [width |-> element.width, height |-> element.height,
     x |-> element.left, y |-> element.top]

\* DOMmeasurer.isElementVisible: the viewport test
isInViewport(element, window) ==
    /\ element.left < Px(window.innerWidth) + Px(ViewportMargin)
    /\ element.left + element.width > 0 - Px(ViewportMargin)
    /\ element.top < Px(window.innerHeight) + Px(ViewportMargin)
    /\ element.top + element.height > 0 - Px(ViewportMargin)

\* Seeded fault: only an element with BOTH dimensions below the threshold
\* is without meaningful dimensions.
hasMeaningfulDimensionsBoth(element, cfg) ==
    ~ (/\ element.width < Px(cfg.measurementThreshold)
       /\ element.height < Px(cfg.measurementThreshold))

\* DOMmeasurer.isElementVisible: the test on the dimensions
hasMeaningfulDimensions(element, cfg) ==
    ~ (\/ element.width < Px(cfg.measurementThreshold)
       \/ element.height < Px(cfg.measurementThreshold))

\* DOMmeasurer.isElementVisible
isElementVisible(element, cfg, window) ==
    IF \/ element.visibility = "hidden"
       \/ element.display = "none"
       \/ element.opacity = "0"
    THEN FALSE
    ELSE IF ~ hasMeaningfulDimensions(element, cfg)
    THEN FALSE
    ELSE isInViewport(element, window)

\* DOMmeasurer.getTextContent
getTextContent(element) ==
    LET text == trim(element.textContent)
    IN  IF Len(text) < 2 THEN <<>> ELSE text

Digits == <<"0","1","2","3","4","5","6","7","8","9">>
isDigit(c) == \E d \in 1..10 : Digits[d] = c
digitValue(c) == (CHOOSE d \in 1..10 : Digits[d] = c) - 1

\* parseInt(value.match(/(\d+)/)[1]), or -1 when nothing matches
RECURSIVE matchDigits(_)
matchDigits(value) ==
    LET RECURSIVE run(_, _)
        run(rest, acc) ==
            IF rest # <<>> /\ isDigit(Head(rest))
            THEN run(Tail(rest), 10 * acc + digitValue(Head(rest)))
            ELSE acc
    IN  IF value = <<>> THEN 0 - 1
        ELSE IF isDigit(Head(value)) THEN run(value, 0)
        ELSE matchDigits(Tail(value))

(***************************************************************************)
(* Colours. A colour is the sequence of the characters of its text.        *)
(***************************************************************************)
Transparent == <<"t","r","a","n","s","p","a","r","e","n","t">>
ZeroRgba == <<"r","g","b","a","(","0",",",
              " ","0",","," ","0",","," ","0",")">>

\* the index after the longest run of characters of a kind that starts at i
RECURSIVE runEnd(_, _, _)
runEnd(str, i, kind) ==
    IF i <= Len(str)
       /\ CASE kind = "digit" -> isDigit(str[i])
            [] kind = "space" -> str[i] = " "
            [] kind = "alpha" -> isDigit(str[i]) \/ str[i] = "."
    THEN runEnd(str, i + 1, kind)
    ELSE i

\* Matching steps: each takes the index reached so far, 0 once the match has
\* failed, and gives the index after what it matched.
literal(str, i, text) ==
    IF /\ i # 0
       /\ i + Len(text) - 1 <= Len(str)
       /\ \A k \in 1..Len(text) : str[i + k - 1] = text[k]
    THEN i + Len(text) ELSE 0
optional(str, i, text) ==
    IF literal(str, i, text) # 0 THEN literal(str, i, text) ELSE i
spaces(str, i, allowed) ==
    IF i # 0 /\ allowed THEN runEnd(str, i, "space") ELSE i
some(str, i, kind) ==
    IF i # 0 /\ runEnd(str, i, kind) > i THEN runEnd(str, i, kind) ELSE 0

\* The match of an rgb()/rgba() pattern at index i of a colour. With loose
\* spacing the pattern is the one of StyleExtractor,
\*   /rgba?\(\s*(\d+)\s*,\s*(\d+)\s*,\s*(\d+)\s*(?:,\s*([\d.]+))?\s*\)/
\* and otherwise the one of DOMmeasurer,
\*   /rgba?\((\d+),\s*(\d+),\s*(\d+)(?:,\s*[\d.]+)?\)/
rgbMatchAt(str, i, loose) ==
    LET open == literal(str, optional(str, literal(str, i, <<"r","g","b">>),
                                      <<"a">>), <<"(">>)
        r1 == spaces(str, open, loose)
        r2 == some(str, r1, "digit")
        g1 == spaces(str, literal(str, spaces(str, r2, loose), <<",">>), TRUE)
        g2 == some(str, g1, "digit")
        b1 == spaces(str, literal(str, spaces(str, g2, loose), <<",">>), TRUE)
        b2 == some(str, b1, "digit")
        rest == spaces(str, b2, loose)
        a1 == spaces(str, literal(str, rest, <<",">>), TRUE)
        a2 == some(str, a1, "alpha")
        withAlpha == literal(str, spaces(str, a2, loose), <<")">>)
        withoutAlpha == literal(str, rest, <<")">>)
    IN  IF withAlpha # 0
        THEN [matched |-> TRUE, r |-> SubSeq(str, r1, r2 - 1),
              g |-> SubSeq(str, g1, g2 - 1), b |-> SubSeq(str, b1, b2 - 1),
              a |-> SubSeq(str, a1, a2 - 1)]
        ELSE IF withoutAlpha # 0
        THEN [matched |-> TRUE, r |-> SubSeq(str, r1, r2 - 1),
              g |-> SubSeq(str, g1, g2 - 1), b |-> SubSeq(str, b1, b2 - 1),
              a |-> <<>>]
        ELSE [matched |-> FALSE, r |-> <<>>, g |-> <<>>, b |-> <<>>, a |-> <<>>]

\* color.match(pattern): the first match from the left
rgbMatch(str, loose) ==
    LET hits == {i \in 1..Len(str) : rgbMatchAt(str, i, loose).matched}
    IN  IF hits = {}
        THEN [matched |-> FALSE, r |-> <<>>, g |-> <<>>, b |-> <<>>, a |-> <<>>]
        ELSE rgbMatchAt(str, CHOOSE i \in hits : \A j \in hits : i <= j, loose)

HexDigits == <<"0","1","2","3","4","5","6","7","8","9","a","b","c","d","e","f">>

\* Number.prototype.toString(16)
RECURSIVE toString16(_)
toString16(n) ==
    IF n < 16 THEN <<HexDigits[n + 1]>>
    ELSE toString16(n \div 16) \o <<HexDigits[(n % 16) + 1]>>

\* parseInt(x).toString(16).padStart(2, '0')
hexPair(x) ==
    LET hex == toString16(matchDigits(x))
    IN  IF Len(hex) < 2 THEN <<"0">> \o hex ELSE hex

\* '#' and the three pairs
hexColor(m) == <<"#">> \o hexPair(m.r) \o hexPair(m.g) \o hexPair(m.b)

\* DOMmeasurer.normalizeColor
normalizeColor(color) ==
    IF color = <<>> \/ color = ZeroRgba \/ color = Transparent
    THEN Transparent
    ELSE LET rgbMatch1 == rgbMatch(color, FALSE)
         IN  IF rgbMatch1.matched THEN hexColor(rgbMatch1) ELSE color

\* parseFloat(a) < 1, for a made of digits and dots
parseFloatBelowOne(a) ==
    LET whole == SubSeq(a, 1, runEnd(a, 1, "digit") - 1)
        dot == Len(whole) + 1
    IN  IF whole # <<>> THEN matchDigits(whole) = 0
        ELSE /\ dot < Len(a)
             /\ isDigit(a[dot + 1])

\* StyleExtractor.normalizeColor
normalizeColorOfStyleExtractor(color) ==
    IF color = <<>> \/ color = ZeroRgba \/ color = Transparent
    THEN Transparent
    ELSE LET rgbaMatch == rgbMatch(color, TRUE)
         IN  IF ~ rgbaMatch.matched THEN color
             ELSE IF rgbaMatch.a # <<>> /\ parseFloatBelowOne(rgbaMatch.a)
             THEN <<"r","g","b","a","(">> \o rgbaMatch.r \o <<","," ">>
                    \o rgbaMatch.g \o <<","," ">> \o rgbaMatch.b
                    \o <<","," ">> \o rgbaMatch.a \o <<")">>
             ELSE hexColor(rgbaMatch)

\* DOMmeasurer.extractStyles (the properties the pipeline reads later); an
\* element that states no background has the initial one, rgba(0, 0, 0, 0)
extractStyles(element) ==
    [backgroundColor |->
        normalizeColor(IF "backgroundColor" \in DOMAIN element
                       THEN element.backgroundColor ELSE ZeroRgba),
     display |-> element.display]

(***************************************************************************)
(* ComponentAnalyzer: the classifier                                       *)
(***************************************************************************)
\* Seeded fault: the class names are compared as written.
hasAnyClassCaseSensitive(classList, patterns) ==
    \E p \in patterns :
        \E i \in 1..Len(classList) : includes(classList[i], p)

\* ComponentAnalyzer.hasAnyClass
hasAnyClass(classList, patterns) ==
    \E p \in patterns :
        \E i \in 1..Len(classList) :
            includes(toLowerCase(classList[i]), toLowerCase(p))

AvatarPatterns == { <<"a","v","a","t","a","r">>,
                    <<"p","r","o","f","i","l","e">>,
                    <<"u","s","e","r","-","i","m","a","g","e">> }
IconPatterns == { <<"i","c","o","n">>,
                  <<"s","v","g","-","i","c","o","n">>,
                  <<"f","a","-">>,
                  <<"i","c","o","n","-">> }
CardPatterns == { <<"c","a","r","d">>, <<"p","a","n","e","l">>,
                  <<"t","i","l","e">> }
ListPatterns == { <<"l","i","s","t">>, <<"m","e","n","u">>, <<"n","a","v">> }

\* ComponentAnalyzer.classifyElement
classifyElement(element) ==
    LET tagName == element.tagName
        classList == element.classList
        textContent == trim(element.textContent)
    IN  IF tagName = "img" THEN "image"
        ELSE IF tagName = "button" \/ element.role = "button" THEN "button"
        ELSE IF tagName \in {"input", "textarea", "select"} THEN "input"
        ELSE IF hasAnyClass(classList, AvatarPatterns) THEN "avatar"
        ELSE IF hasAnyClass(classList, IconPatterns) THEN "icon"
        ELSE IF hasAnyClass(classList, CardPatterns) THEN "card"
        ELSE IF hasAnyClass(classList, ListPatterns) THEN "list"
        ELSE IF textContent # <<>> /\ element.display # "flex"
                /\ element.display # "grid" THEN "text"
        ELSE IF \/ element.display = "flex"
                \/ element.display = "grid"
                \/ tagName \in {"div", "section", "article"} THEN "container"
        ELSE "unknown"

(***************************************************************************)
(* ComponentAnalyzer: the tree walk                                        *)
(*                                                                         *)
(* A rendered tree is [parent, el]: the elements below the root are        *)
(* numbered 1..Len(el) in document order, parent[i] < i is the number of   *)
(* the parent of i, and 0 is the root.                                     *)
(***************************************************************************)
Window == [innerWidth |-> 1024, innerHeight |-> 768]

\* Array.from(element.children)
children(tree, n) ==
    LET RECURSIVE from(_)
        from(i) == IF i > Len(tree.el) THEN <<>>
                   ELSE IF tree.parent[i] = n THEN <<i>> \o from(i + 1)
                   ELSE from(i + 1)
    IN  from(1)

\* DOMmeasurer.measureComplete
measureComplete(element, cfg) ==
    [isVisible |-> isElementVisible(element, cfg, Window)]

\* ComponentAnalyzer.generateElementId throws a TypeError on an element
\* whose className is no string (an SVG element): className.split is undefined
generateElementIdThrows(element) == element.svg

\* ComponentAnalyzer.generateElementId; Math.random() never repeats within a
\* pass here: the random part is the element's number
generateElementId(element, depth, n) ==
    LET className == IF element.classList # <<>>
                     THEN Str(element.classList[1]) ELSE ""
        tail == IF element.id # "" THEN element.id
                ELSE IF className # "" THEN className
                ELSE "r" \o ToString(n)
    IN  element.tagName \o "-" \o ToString(depth) \o "-" \o tail

\* Seeded fault: the loop skips no element.
skippedNever(element, cfg) == FALSE

\* ComponentAnalyzer.analyzeElements: the loop skips the element
skipped(element, cfg) ==
    cfg.ignoreInvisibleElements /\ ~ measureComplete(element, cfg).isVisible

\* Seeded fault: the depth cutoff comes one level late.
depthCutoffLate(depth, cfg) == depth > cfg.maxDepth

\* ComponentAnalyzer.analyzeElements: the depth cutoff
depthCutoff(depth, cfg) == depth >= cfg.maxDepth

\* ComponentAnalyzer.analyzeElements throws (an element it visits makes
\* generateElementId throw)
RECURSIVE analyzeElementsThrows(_, _, _, _)
analyzeElementsThrows(tree, n, depth, cfg) ==
    /\ ~ depthCutoff(depth, cfg)
    /\ \E i \in 1..Len(tree.el) :
          /\ tree.parent[i] = n
          /\ ~ skipped(tree.el[i], cfg)
          /\ \/ generateElementIdThrows(tree.el[i])
             \/ analyzeElementsThrows(tree, i, depth + 1, cfg)

\* ComponentAnalyzer.analyzeElements, when it does not throw. The field node
\* is not in the code: it records the element a result was built from.
RECURSIVE analyzeElements(_, _, _, _)
analyzeElements(tree, n, depth, cfg) ==
    IF depthCutoff(depth, cfg) THEN <<>>
    ELSE
      LET RECURSIVE loop(_)
          loop(cs) ==
            IF cs = <<>> THEN <<>>
            ELSE LET i == Head(cs)
                     element == tree.el[i]
                     measurement == measureComplete(element, cfg)
                 IN  IF skipped(element, cfg) THEN loop(Tail(cs))
                     ELSE << [id |-> generateElementId(element, depth, i),
                              tagName |-> element.tagName,
                              dimensions |-> measureElement(element),
                              styles |-> extractStyles(element),
                              children |-> analyzeElements(tree, i, depth + 1, cfg),
                              textContent |-> getTextContent(element),
                              isVisible |-> measurement.isVisible,
                              elementType |-> classifyElement(element),
                              node |-> i] >> \o loop(Tail(cs))
      IN  loop(children(tree, n))

(***************************************************************************)
(* The inputs of an analysis                                               *)
(***************************************************************************)
El(tag, svg, classList, text, visibility, display, opacity, w, h) ==
    [tagName |-> tag, id |-> "", svg |-> svg, classList |-> classList,
     role |-> "", textContent |-> text,
     visibility |-> visibility, display |-> display, opacity |-> opacity,
     left |-> 0, top |-> 0, width |-> Px(w), height |-> Px(h)]

\* The elements the rendered trees are made of: one that shows (it has a
\* DOM id, the others none), one for each way of hiding an element, and an
\* SVG element.
TreeElements ==
    { [El("div", FALSE, <<>>, <<>>, "visible", "block", "1", 100, 50)
          EXCEPT !.id = "item"],
      El("div", FALSE, <<>>, <<>>, "visible", "none", "1", 100, 50),
      El("span", FALSE, <<>>, <<>>, "hidden", "inline", "1", 100, 50),
      El("p", FALSE, <<>>, <<"H","i">>, "visible", "block", "0", 100, 50),
      El("svg", TRUE, << <<"i","c","o","n">> >>, <<>>, "visible", "inline", "1", 24, 24) }

RenderedTrees ==
    { [parent |-> p, el |-> e] :
        p \in { q \in [1..MaxNodes -> 0..(MaxNodes - 1)] :
                  \A i \in 1..MaxNodes : q[i] < i },
        e \in [1..MaxNodes -> TreeElements] }

Configs ==
    [measurementThreshold : {DefaultMeasurementThreshold},
     maxDepth : (0..MaxCfgDepth) \cup {DefaultMaxDepth},
     ignoreInvisibleElements : BOOLEAN]

Environments ==
    {"ok", "no_window", "no_getComputedStyle", "no_getBoundingClientRect"}

ComponentRefs == {"ref_empty", "ref_element", "element"}

TimeoutOptions == {0, 3 * FrameMs}

FrameDurations == {FrameMs, 2 * FrameMs}

\* What getBoundingClientRect may report for the root: nothing, a size, the
\* same size a sub-pixel larger, and the size one whole pixel larger.
RootWidths == {0, Px(10), Px(10) + 1, Px(11)}
RootHeights == {0, Px(10), Px(11)}
RootDimensions == [width : RootWidths, height : RootHeights]

(***************************************************************************)
(* ComponentAnalyzer.analyzeComponent                                      *)
(***************************************************************************)
\* ComponentAnalyzer.resolveElement
resolveElement(ref) == IF ref = "ref_empty" THEN Null ELSE "element"

\* DOMmeasurer.validateEnvironment: the code of the error it throws, or Null
validateEnvironment(e) ==
    IF e = "no_window" THEN "ENVIRONMENT_ERROR"
    ELSE IF e = "no_getComputedStyle" THEN "FEATURE_NOT_SUPPORTED"
    ELSE IF e = "no_getBoundingClientRect" THEN "FEATURE_NOT_SUPPORTED"
    ELSE Null

AutoSkeletonError(code, cause) ==
    [settled |-> "rejected", name |-> "AutoSkeletonError", code |-> code,
     cause |-> cause]

\* Seeded fault: the catch block gives a timeout a code of its own.
analysisFailedTimeoutCode(cause) ==
    AutoSkeletonError(IF cause = "Component ready timeout"
                      THEN "ANALYSIS_TIMEOUT" ELSE "ANALYSIS_FAILED", cause)

\* analyzeComponent: the catch block
analysisFailed(cause) == AutoSkeletonError("ANALYSIS_FAILED", cause)

\* analyzeComponent: const timeout = options.timeout || 5000
timeout == IF timeoutOption # 0 THEN timeoutOption ELSE DefaultTimeout

\* Seeded fault: the deadline is met as soon as it is reached.
timedOutAtBoundary(t) == t - start >= timeout

\* check: Date.now() - start > timeout
timedOut(t) == t - start > timeout

\* Seeded fault: the dimensions need not be positive.
stabilizedWithoutSize(current, last) ==
    /\ Abs(current.width - last.width) < Px(1)
    /\ Abs(current.height - last.height) < Px(1)

\* check: the dimensions have stabilized
stabilized(current, last) ==
    /\ Abs(current.width - last.width) < Px(1)
    /\ Abs(current.height - last.height) < Px(1)
    /\ current.width > 0
    /\ current.height > 0

\* No element is handed to the measurer or the classifier on its own.
NoElement ==
    /\ theElement = Null
    /\ theWindow = Null
    /\ isVisible = FALSE
    /\ elementType = Null
    /\ styles = Null
    /\ optimal = Null

\* withAutoSkeletonAdvanced: the default of retryAttempts, and the delay of
\* the first retry (ms)
DefaultRetryAttempts == 3
RetryDelayMs == 1000

\* Neither callback has run, no pass has settled.
NoCalls == [onError |-> 0, onAnalysisComplete |-> 0]
NoneSettled == [rejected |-> 0, resolved |-> 0]

\* A hook that has done nothing yet, and nothing around it.
FreshHook ==
    /\ isAnalyzing = FALSE
    /\ error = Null
    /\ analysisResult = Null
    /\ inFlight = {}
    /\ passes = 0
    /\ lastCall = Null
    /\ before = Null
    /\ regenerated = FALSE
    /\ callbacks = NoCalls
    /\ settled = NoneSettled
    /\ retryCount = 0
    /\ seen = <<>>
    /\ timers = {}
    /\ retries = 0

\* No hook is mounted.
NoHook ==
    /\ hookRef = "null"
    /\ attached = FALSE
    /\ wrapper = "useAutoSkeleton"
    /\ retryAttempts = DefaultRetryAttempts
    /\ FreshHook

\* The document of a server: none
Undefined == [undefined |-> TRUE]

\* Neither injectSkeletonCSS nor optimizeForPerformance is called.
NoPrimitive ==
    /\ document = Undefined
    /\ injections = 0
    /\ animationArg = [type |-> "none"]
    /\ elementCount = 0
    /\ optimized = [type |-> "none"]

\* SkeletonGenerator.constructor: the default parameters
DefaultAnimationDuration == 1500
DefaultTheme == [type |-> "light"]
DefaultAnimation == [type |-> "shimmer", duration |-> DefaultAnimationDuration]

\* analysisResult.layout of a root that is a block, and of a flex column
BlockLayout ==
    [containerType |-> "block", wrap |-> FALSE, gap |-> 0,
     alignItems |-> "normal", justifyContent |-> "normal"]
FlexLayout ==
    [containerType |-> "flex", direction |-> "column", wrap |-> FALSE,
     gap |-> 8, alignItems |-> "center", justifyContent |-> "normal"]

\* No generation is under way.
NoGeneration ==
    /\ analysis = <<>>
    /\ options = [none |-> TRUE]
    /\ generation = [config |-> <<>>]
    /\ layout = BlockLayout
    /\ theme = DefaultTheme
    /\ animation = DefaultAnimation
    /\ prefersReducedMotion = FALSE
    /\ updates = 0

Init ==
    /\ config \in Configs
    /\ env \in Environments
    /\ componentRef \in ComponentRefs
    /\ timeoutOption \in TimeoutOptions
    /\ pc = "idle"
    /\ now = 0
    /\ start = Null
    /\ lastDimensions = NoDimensions
    /\ currentDimensions = NoDimensions
    /\ dom = NoTree
    /\ outcome = Null
    /\ NoElement
    /\ NoHook
    /\ NoPrimitive
    /\ NoGeneration

\* analyzeComponent up to its await: resolve the root, validate the
\* environment, and waitForComponentReady up to its first requestAnimationFrame
analyzeComponent ==
    /\ pc = "idle"
    /\ UNCHANGED <<elementVars, hookVars, primitiveVars, generatorVars>>
    /\ UNCHANGED <<config, env, componentRef, timeoutOption, now,
                   currentDimensions, dom>>
    /\ IF resolveElement(componentRef) = Null
       THEN /\ pc' = "rejected"
            /\ outcome' = AutoSkeletonError("ELEMENT_NOT_FOUND", Null)
            /\ UNCHANGED <<start, lastDimensions>>
       ELSE IF validateEnvironment(env) # Null
       THEN /\ pc' = "rejected"
            /\ outcome' = AutoSkeletonError(validateEnvironment(env), Null)
            /\ UNCHANGED <<start, lastDimensions>>
       ELSE /\ pc' = "waiting"
            /\ start' = now
            /\ \E d \in RootDimensions : lastDimensions' = d
            /\ UNCHANGED outcome

\* waitForComponentReady: check, run by one animation frame. A rejection is
\* caught by analyzeComponent, which rethrows it.
check ==
    /\ pc = "waiting"
    /\ UNCHANGED <<elementVars, hookVars, primitiveVars, generatorVars>>
    /\ \E dt \in FrameDurations : now' = now + dt
    /\ UNCHANGED <<config, env, componentRef, timeoutOption, start, dom>>
    /\ IF timedOut(now')
       THEN /\ pc' = "rejected"
            /\ outcome' = analysisFailed("Component ready timeout")
            /\ UNCHANGED <<lastDimensions, currentDimensions>>
       ELSE /\ \E d \in RootDimensions : currentDimensions' = d
            /\ IF stabilized(currentDimensions', lastDimensions)
               THEN /\ pc' = "ready"
                    /\ UNCHANGED lastDimensions
               ELSE /\ pc' = "waiting"
                    /\ lastDimensions' = currentDimensions'
            /\ UNCHANGED outcome

\* analyzeComponent after its await: the tree walk, and the return or the
\* catch block. The locals of waitForComponentReady are gone by then.
analyzeComponentResume ==
    /\ pc = "ready"
    /\ UNCHANGED <<elementVars, hookVars, primitiveVars, generatorVars>>
    /\ UNCHANGED <<config, env, componentRef, timeoutOption, now>>
    /\ start' = Null
    /\ lastDimensions' = NoDimensions
    /\ currentDimensions' = NoDimensions
    /\ \E tree \in RenderedTrees :
         /\ dom' = tree
         /\ IF analyzeElementsThrows(tree, 0, 0, config)
            THEN /\ pc' = "rejected"
                 /\ outcome' = analysisFailed("TypeError")
            ELSE /\ pc' = "resolved"
                 /\ outcome' = [settled |-> "resolved",
                                elements |-> analyzeElements(tree, 0, 0, config)]

Next ==
    \/ analyzeComponent
    \/ check
    \/ analyzeComponentResume

Spec == Init /\ [][Next]_vars

(***************************************************************************)
(* DOMmeasurer.isElementVisible on one element                             *)
(***************************************************************************)
\* No analysis is running.
NoAnalysis ==
    /\ env = "ok"
    /\ componentRef = Null
    /\ timeoutOption = 0
    /\ pc = "idle"
    /\ now = 0
    /\ start = Null
    /\ lastDimensions = NoDimensions
    /\ currentDimensions = NoDimensions
    /\ dom = NoTree
    /\ outcome = Null

\* Positions and sizes around the threshold and around the edges of the
\* window widened by the margin.
MeasuredSizes == {0, Px(DefaultMeasurementThreshold) - 1,
                  Px(DefaultMeasurementThreshold), Px(100), Px(200)}
MeasuredLefts == {0 - Px(300), 0 - Px(200), 0,
                  Px(Window.innerWidth + ViewportMargin) - 1,
                  Px(Window.innerWidth + ViewportMargin)}
MeasuredTops == {0 - Px(300), 0,
                 Px(Window.innerHeight + ViewportMargin)}

MeasuredElements ==
    [tagName : {"div"}, id : {""}, svg : {FALSE}, classList : {<<>>},
     role : {""}, textContent : {<<>>},
     visibility : {"visible", "hidden"},
     display : {"block", "none"},
     opacity : {"1", "0", "0.5"},
     left : MeasuredLefts, top : MeasuredTops,
     width : MeasuredSizes, height : MeasuredSizes]

InitMeasure ==
    /\ NoAnalysis
    /\ config \in [measurementThreshold : {DefaultMeasurementThreshold,
                                           2 * DefaultMeasurementThreshold},
                   maxDepth : {DefaultMaxDepth},
                   ignoreInvisibleElements : {TRUE}]
    /\ theElement \in MeasuredElements
    /\ theWindow = Window
    /\ isVisible = FALSE
    /\ elementType = Null
    /\ styles = Null
    /\ optimal = Null
    /\ NoHook
    /\ NoPrimitive
    /\ NoGeneration

\* a call of DOMmeasurer.isElementVisible(theElement)
isElementVisibleCall ==
    /\ pc = "idle"
    /\ pc' = "returned"
    /\ isVisible' = isElementVisible(theElement, config, theWindow)
    /\ UNCHANGED <<config, env, componentRef, timeoutOption, now, start,
                   lastDimensions, currentDimensions, dom, outcome>>
    /\ UNCHANGED <<theElement, theWindow, elementType, styles, optimal, hookVars, primitiveVars,
                   generatorVars>>

NextMeasure == isElementVisibleCall

SpecMeasure == InitMeasure /\ [][NextMeasure]_vars

(***************************************************************************)
(* ComponentAnalyzer.classifyElement on one element                        *)
(***************************************************************************)
ClassLists ==
    { <<>>,
      << <<"p","l","a","i","n">> >>,
      << <<"A","v","a","t","a","r">> >>,
      << <<"b","t","n">>, <<"u","s","e","r","-","P","r","o","f","i","l","e">> >>,
      << <<"i","c","o","n">> >>,
      << <<"f","a","-","h","o","m","e">> >>,
      << <<"C","A","R","D">> >>,
      << <<"t","i","l","e">>, <<"m","e","n","u">> >>,
      << <<"n","a","v","b","a","r">> >>,
      << <<"i","c","o","n","l","i","s","t">> >>,
      << <<"l","i","s","t">>, <<"p","r","o","f","i","l","e","-","c","a","r","d">> >> }

ClassifiedElements ==
    [tagName : {"img", "button", "input", "textarea", "select", "div",
                "section", "article", "span", "a"},
     id : {""}, svg : {FALSE},
     classList : ClassLists,
     role : {"", "button", "link"},
     textContent : {<<>>, <<" ">>, <<"H","i">>, <<" ","x"," ">>},
     visibility : {"visible"},
     display : {"block", "inline", "flex", "grid"},
     opacity : {"1"},
     left : {0}, top : {0}, width : {Px(100)}, height : {Px(50)}]

InitClassify ==
    /\ NoAnalysis
    /\ config \in [measurementThreshold : {DefaultMeasurementThreshold},
                   maxDepth : {DefaultMaxDepth},
                   ignoreInvisibleElements : {TRUE}]
    /\ theElement \in ClassifiedElements
    /\ theWindow = Window
    /\ isVisible = FALSE
    /\ elementType = Null
    /\ styles = Null
    /\ optimal = Null
    /\ NoHook
    /\ NoPrimitive
    /\ NoGeneration

\* a call of ComponentAnalyzer.classifyElement(theElement)
classifyElementCall ==
    /\ pc = "idle"
    /\ pc' = "returned"
    /\ elementType' = classifyElement(theElement)
    /\ UNCHANGED <<config, env, componentRef, timeoutOption, now, start,
                   lastDimensions, currentDimensions, dom, outcome>>
    /\ UNCHANGED <<theElement, theWindow, isVisible, styles, optimal, hookVars, primitiveVars,
                   generatorVars>>

NextClassify == classifyElementCall

SpecClassify == InitClassify /\ [][NextClassify]_vars

(***************************************************************************)
(* Properties of analyzeComponent (specification Spec)                     *)
(***************************************************************************)
\* The measurement of the root taken before the latest one.
PreviousMeasurement ==
    IF currentDimensions = NoDimensions THEN lastDimensions ELSE currentDimensions

\* Two measurements less than one pixel apart in width and in height, the
\* later one with a positive width and height.
Settled(current, previous) ==
    /\ current.width - previous.width < Scale
    /\ previous.width - current.width < Scale
    /\ current.height - previous.height < Scale
    /\ previous.height - current.height < Scale
    /\ current.width >= 1
    /\ current.height >= 1

\* C1: on every animation-frame tick before the deadline the root is measured
\* again, and the wait completes at that tick exactly when the new measurement
\* is within less than one pixel of the previous one in both dimensions and
\* both dimensions are positive; the wait completes at no other step.
C1_StabilizationAtFirstStableTick ==
    [][ /\ (pc = "waiting" /\ now' # now /\ now' - start <= timeout)
           => /\ currentDimensions' \in RootDimensions
              /\ (pc' = "ready") <=> Settled(currentDimensions', PreviousMeasurement)
        /\ (pc # "ready" /\ pc' = "ready")
           => (pc = "waiting" /\ now' # now /\ now' - start <= timeout)
      ]_vars

\* C1 witness: the wait completed at the second tick or later, on a
\* measurement a sub-pixel away from the one before.
C1_Witness ==
    /\ pc = "ready"
    /\ now - start > 2 * FrameMs
    /\ currentDimensions # lastDimensions
    /\ Settled(currentDimensions, lastDimensions)

\* The analysis was rejected because the root never stabilized.
TimeoutRejection ==
    /\ pc = "rejected"
    /\ outcome.cause = "Component ready timeout"

\* The longest time between two animation frames.
MaxFrameDuration == 2 * FrameMs

\* C2 as claimed: a root that never stabilizes is rejected with an error of
\* a kind of its own, told apart from the failure of the tree walk, within
\* one tick of the timeout.
C2_TimeoutErrorKind ==
    TimeoutRejection =>
        /\ outcome.code # analysisFailed("TypeError").code
        /\ now - start > timeout
        /\ now - start <= timeout + MaxFrameDuration

\* C2 amended: a root that never stabilizes is rejected with the
\* AutoSkeletonError of code ANALYSIS_FAILED that wraps every failure of the
\* analysis, at the first tick on which more than the timeout
\* (options.timeout, or 5000 ms when that is absent or 0) has passed, and so
\* within one tick of the boundary; no wait is pending beyond the boundary.
C2_TimeoutRejection ==
    /\ TimeoutRejection =>
          /\ outcome.name = "AutoSkeletonError"
          /\ outcome.code = "ANALYSIS_FAILED"
          /\ now - start > (IF timeoutOption = 0 THEN DefaultTimeout ELSE timeoutOption)
          /\ now - start <= (IF timeoutOption = 0 THEN DefaultTimeout ELSE timeoutOption)
                            + MaxFrameDuration
    /\ pc = "waiting" => now - start <= timeout

\* C2 witness: a rejection at the default timeout.
C2_Witness ==
    /\ TimeoutRejection
    /\ timeoutOption = 0
    /\ now - start > DefaultTimeout

\* The number of levels between the root and element i of the tree.
RECURSIVE levelOf(_, _)
levelOf(tree, i) ==
    IF tree.parent[i] = 0 THEN 1 ELSE 1 + levelOf(tree, tree.parent[i])

\* Element i and the elements above it, the root left out.
RECURSIVE pathTo(_, _)
pathTo(tree, i) ==
    IF tree.parent[i] = 0 THEN {i} ELSE {i} \cup pathTo(tree, tree.parent[i])

HiddenByStyle(e) ==
    e.display = "none" \/ e.opacity = "0" \/ e.visibility = "hidden"

\* The walk reaches element i: it is above the depth cutoff, and no element
\* on the way to it is filtered out.
Reached(tree, i) ==
    /\ levelOf(tree, i) <= config.maxDepth
    /\ config.ignoreInvisibleElements
          => \A j \in pathTo(tree, i) : ~ HiddenByStyle(tree.el[j])

\* All the analyzed elements of a result, the nested ones included.
RECURSIVE reachable(_)
reachable(elements) ==
    UNION { {elements[k]} \cup reachable(elements[k].children) :
              k \in 1..Len(elements) }

\* The kind of an error, the AnalysisTimeoutError being the rejection that
\* carries the timeout message.
ErrorKind(o) ==
    IF o.code = "ELEMENT_NOT_FOUND" THEN "ElementNotFoundError"
    ELSE IF o.code = "ENVIRONMENT_ERROR" THEN "EnvironmentError"
    ELSE IF o.cause = "Component ready timeout" THEN "AnalysisTimeoutError"
    ELSE o.code

\* C3 as claimed: every rejection of analyze is an ElementNotFoundError, an
\* EnvironmentError or an AnalysisTimeoutError.
C3_ThreeErrorKinds ==
    pc = "rejected" =>
        ErrorKind(outcome) \in {"ElementNotFoundError", "EnvironmentError",
                                "AnalysisTimeoutError"}

\* C3 amended: every rejection of analyze is an AutoSkeletonError whose code
\* is ELEMENT_NOT_FOUND (absent root), ENVIRONMENT_ERROR (no window),
\* FEATURE_NOT_SUPPORTED (a measurement API is missing) or ANALYSIS_FAILED
\* (stabilization timeout, failure during the tree walk); and no failure is
\* swallowed: an analysis that resolves had a root, a full environment and
\* a walk that reached no element that throws.
C3_ErrorCodes ==
    /\ pc = "rejected" =>
          /\ outcome.name = "AutoSkeletonError"
          /\ outcome.code =
               (IF componentRef = "ref_empty" THEN "ELEMENT_NOT_FOUND"
                ELSE IF env = "no_window" THEN "ENVIRONMENT_ERROR"
                ELSE IF env # "ok" THEN "FEATURE_NOT_SUPPORTED"
                ELSE "ANALYSIS_FAILED")
    /\ pc = "resolved" =>
          /\ componentRef # "ref_empty"
          /\ env = "ok"
          /\ \A i \in 1..Len(dom.el) : dom.el[i].svg => ~ Reached(dom, i)
    /\ (pc = "rejected" /\ dom # NoTree) =>
          \E i \in 1..Len(dom.el) : dom.el[i].svg /\ Reached(dom, i)

\* C3 witness: the tree walk failed on an SVG element and analyze rejected.
C3_Witness ==
    /\ pc = "rejected"
    /\ dom # NoTree
    /\ outcome.cause = "TypeError"

\* C4: with the filter on, every analyzed element of a result is visible,
\* and an element hidden by display, opacity or visibility is absent from
\* the result with all the elements below it.
C4_InvisibleSubtreesAbsent ==
    (pc = "resolved" /\ config.ignoreInvisibleElements) =>
        /\ \A e \in reachable(outcome.elements) : e.isVisible = TRUE
        /\ \A i \in 1..Len(dom.el) :
              HiddenByStyle(dom.el[i]) =>
                 \A j \in 1..Len(dom.el) :
                    i \in pathTo(dom, j) =>
                       \A e \in reachable(outcome.elements) : e.node # j

\* C4 witness: a result for a tree in which a hidden element has a child
\* that is itself visible, within the depth limit.
C4_Witness ==
    /\ pc = "resolved"
    /\ config.ignoreInvisibleElements
    /\ \E i, j \in 1..Len(dom.el) :
          /\ dom.parent[j] = i
          /\ HiddenByStyle(dom.el[i])
          /\ ~ HiddenByStyle(dom.el[j])
          /\ levelOf(dom, j) <= config.maxDepth

\* The number of levels of the deepest analyzed element of a result.
RECURSIVE nesting(_)
nesting(elements) ==
    IF elements = <<>> THEN 0
    ELSE LET deepest == CHOOSE k \in 1..Len(elements) :
                           \A m \in 1..Len(elements) :
                              nesting(elements[m].children)
                                 <= nesting(elements[k].children)
         IN  1 + nesting(elements[deepest].children)

\* C6: no analyzed element of a result is nested more than maxDepth levels
\* below the root, and every element the walk reaches is in the result.
C6_DepthBounded ==
    pc = "resolved" =>
        /\ nesting(outcome.elements) <= config.maxDepth
        /\ \A i \in 1..Len(dom.el) :
              Reached(dom, i) =>
                 \E e \in reachable(outcome.elements) : e.node = i

\* C6 witness: a result for a tree with a visible element below the depth
\* cutoff: the element is left out and the analysis succeeds.
C6_Witness ==
    /\ pc = "resolved"
    /\ \E i \in 1..Len(dom.el) :
          /\ levelOf(dom, i) > config.maxDepth
          /\ \A j \in pathTo(dom, i) : ~ HiddenByStyle(dom.el[j])
          /\ \A e \in reachable(outcome.elements) : e.node # i

(***************************************************************************)
(* Properties of isElementVisible (specification SpecMeasure)              *)
(***************************************************************************)
HiddenOrTransparent(e) ==
    e.visibility = "hidden" \/ e.display = "none" \/ e.opacity = "0"

\* The bounding box has no point inside the window widened by the margin.
OutsideExpandedViewport(e, w) ==
    \/ e.left >= (w.innerWidth + ViewportMargin) * Scale
    \/ e.left + e.width <= (0 - ViewportMargin) * Scale
    \/ e.top >= (w.innerHeight + ViewportMargin) * Scale
    \/ e.top + e.height <= (0 - ViewportMargin) * Scale

BelowThreshold(length) == length < config.measurementThreshold * Scale

\* C5 as claimed: isVisible is false exactly when the element is hidden,
\* not displayed or fully transparent, or BOTH its dimensions are below the
\* threshold, or its box is outside the widened viewport.
C5_BothDimensionsBelowThreshold ==
    pc = "returned" =>
        (isVisible = FALSE <=>
            \/ HiddenOrTransparent(theElement)
            \/ (BelowThreshold(theElement.width) /\ BelowThreshold(theElement.height))
            \/ OutsideExpandedViewport(theElement, theWindow))

\* C5 amended: isVisible is false exactly when the element is hidden, not
\* displayed or fully transparent, or its width OR its height is below the
\* threshold, or its box is outside the widened viewport; it is true in
\* every other case.
C5_EitherDimensionBelowThreshold ==
    pc = "returned" =>
        (isVisible = FALSE <=>
            \/ HiddenOrTransparent(theElement)
            \/ BelowThreshold(theElement.width)
            \/ BelowThreshold(theElement.height)
            \/ OutsideExpandedViewport(theElement, theWindow))

\* C5 witness: an element in view with only its height below the threshold
\* was found invisible.
C5_Witness ==
    /\ pc = "returned"
    /\ ~ HiddenOrTransparent(theElement)
    /\ ~ OutsideExpandedViewport(theElement, theWindow)
    /\ ~ BelowThreshold(theElement.width)
    /\ BelowThreshold(theElement.height)
    /\ isVisible = FALSE

(***************************************************************************)
(* Properties of classifyElement (specification SpecClassify)              *)
(***************************************************************************)
\* word occurs in token at offset k
OccursAt(token, word, k) ==
    /\ k + Len(word) <= Len(token)
    /\ \A m \in 1..Len(word) : toLowerCaseChar(token[k + m]) = word[m]

\* Some class of the element contains one of the words, whatever the case.
ClassContains(e, words) ==
    \E c \in 1..Len(e.classList) :
        \E word \in words :
            \E k \in 0..Len(e.classList[c]) : OccursAt(e.classList[c], word, k)

HasText(e) == \E k \in 1..Len(e.textContent) : e.textContent[k] # " "

ElementTypes == {"text", "image", "button", "input", "container", "icon",
                 "avatar", "card", "list", "unknown"}

\* C7: classify is a first-match-wins chain: the tag rules (img; button tag
\* or role; input, textarea, select), then the class rules (avatar, icon,
\* card, list, by case-insensitive substring), then the text rule, then the
\* container rule, then unknown.
C7_ClassifierPriorityChain ==
    pc = "returned" =>
        LET e == theElement
            isImg == e.tagName = "img"
            isButton == e.tagName = "button" \/ e.role = "button"
            isInput == e.tagName \in {"input", "textarea", "select"}
            byTag == isImg \/ isButton \/ isInput
            isAvatar == ClassContains(e, AvatarPatterns)
            isIcon == ClassContains(e, IconPatterns)
            isCard == ClassContains(e, CardPatterns)
            isList == ClassContains(e, ListPatterns)
            byClass == isAvatar \/ isIcon \/ isCard \/ isList
            flexOrGrid == e.display \in {"flex", "grid"}
            isText == HasText(e) /\ ~ flexOrGrid
            isContainer == flexOrGrid \/ e.tagName \in {"div", "section", "article"}
        IN  /\ elementType \in ElementTypes
            /\ isImg => elementType = "image"
            /\ (~ isImg /\ isButton) => elementType = "button"
            /\ (~ isImg /\ ~ isButton /\ isInput) => elementType = "input"
            /\ (~ byTag /\ isAvatar) => elementType = "avatar"
            /\ (~ byTag /\ ~ isAvatar /\ isIcon) => elementType = "icon"
            /\ (~ byTag /\ ~ isAvatar /\ ~ isIcon /\ isCard) => elementType = "card"
            /\ (~ byTag /\ ~ isAvatar /\ ~ isIcon /\ ~ isCard /\ isList)
                  => elementType = "list"
            /\ (~ byTag /\ ~ byClass /\ isText) => elementType = "text"
            /\ (~ byTag /\ ~ byClass /\ ~ isText /\ isContainer)
                  => elementType = "container"
            /\ (~ byTag /\ ~ byClass /\ ~ isText /\ ~ isContainer)
                  => elementType = "unknown"

\* C7 witness: an img that carries the class Avatar was classified image.
C7_Witness ==
    /\ pc = "returned"
    /\ theElement.tagName = "img"
    /\ ClassContains(theElement, AvatarPatterns)
    /\ elementType = "image"

(***************************************************************************)
(* useAutoSkeleton: one mounted hook. A handler runs to its end and React   *)
(* applies the state updates it queued before anything else runs.          *)
(***************************************************************************)
\* No analysis is running and no element is handed to the measurer.
NoAnalyzerCall ==
    /\ NoAnalysis
    /\ config \in [measurementThreshold : {DefaultMeasurementThreshold},
                   maxDepth : {DefaultMaxDepth},
                   ignoreInvisibleElements : {TRUE}]
    /\ NoElement

\* What analyzer.analyzeComponent rejects with, once the root is there.
RejectionCodes == {"ANALYSIS_FAILED", "FEATURE_NOT_SUPPORTED"}

\* The AnalysisResult of pass p.
resultOf(p) == "result" \o ToString(p)

\* What calls the hook: the caller's own component, or withAutoSkeleton
Wrappers == {"useAutoSkeleton", "withAutoSkeleton"}

\* withAutoSkeleton hands the hook a ref of its own, empty until the wrapped
\* component is mounted
InitHook ==
    /\ NoAnalyzerCall
    /\ wrapper \in Wrappers
    /\ hookRef \in (IF wrapper = "useAutoSkeleton"
                    THEN {"null", "empty", "element"} ELSE {"empty"})
    /\ attached = (hookRef = "element")
    /\ retryAttempts = DefaultRetryAttempts
    /\ FreshHook
    /\ NoGeneration
    /\ NoPrimitive

\* useAutoSkeleton.analyzeComponent up to its await, on a ref in state ref
\* and from a closure that holds retryCount count: what it leaves in
\* isAnalyzing, error, inFlight, passes and seen
hookAnalyzeComponentOn(ref, count) ==
    IF ref # "element"
    THEN [isAnalyzing |-> isAnalyzing, error |-> "REF_NOT_AVAILABLE",
          inFlight |-> inFlight, passes |-> passes, seen |-> seen]
    ELSE [isAnalyzing |-> TRUE, error |-> Null,
          inFlight |-> inFlight \cup {passes + 1}, passes |-> passes + 1,
          seen |-> Append(seen, count)]

\* useAutoSkeleton.analyzeComponent up to its await, as the hook of this
\* render calls it
hookAnalyzeComponent == hookAnalyzeComponentOn(hookRef, retryCount)

\* Seeded fault: regenerateSkeleton discards the result only when a pass is
\* already under way.
resultKeptWhenIdle(current, analyzing) ==
    IF analyzing THEN Null ELSE current

\* regenerateSkeleton: setAnalysisResult(null)
resultAfterRegenerate(current, analyzing) == Null

\* useAutoSkeleton.regenerateSkeleton, called by the component that uses
\* the hook (withAutoSkeleton never calls it)
regenerateSkeleton ==
    /\ wrapper = "useAutoSkeleton"
    /\ passes < MaxPasses
    /\ LET started == hookAnalyzeComponent
       IN  /\ analysisResult' = resultAfterRegenerate(analysisResult, isAnalyzing)
           /\ isAnalyzing' = started.isAnalyzing
           /\ error' = started.error
           /\ inFlight' = started.inFlight
           /\ passes' = started.passes
           /\ seen' = started.seen
    /\ lastCall' = "regenerateSkeleton"
    /\ regenerated' = TRUE
    /\ before' = [analysisResult |-> analysisResult, error |-> error,
                  inFlight |-> inFlight, hookRef |-> hookRef]
    /\ UNCHANGED <<hookRef, attached, callbacks, settled, wrapper,
                   retryAttempts, retryCount, timers, retries>>
    /\ UNCHANGED <<analyzerVars, elementVars, generatorVars, primitiveVars>>

\* Seeded fault: the effect does not look at the ref.
shouldAutoAnalyzeWithoutRef(ref, result, analyzing) ==
    result = Null /\ ~ analyzing

\* useAutoSkeleton: the condition of the effect that analyzes once the ref
\* is available
shouldAutoAnalyze(ref, result, analyzing) ==
    ref = "element" /\ result = Null /\ ~ analyzing

\* useAutoSkeleton: the effect that analyzes once the ref is available; its
\* timer fires while its condition still holds
autoAnalyze ==
    /\ passes < MaxPasses
    /\ shouldAutoAnalyze(hookRef, analysisResult, isAnalyzing)
    /\ LET started == hookAnalyzeComponent
       IN  /\ isAnalyzing' = started.isAnalyzing
           /\ error' = started.error
           /\ inFlight' = started.inFlight
           /\ passes' = started.passes
           /\ seen' = started.seen
    /\ lastCall' = "autoAnalyze"
    /\ UNCHANGED <<hookRef, analysisResult, before, attached, regenerated,
                   callbacks, settled, wrapper, retryAttempts, retryCount,
                   timers, retries>>
    /\ UNCHANGED <<analyzerVars, elementVars, generatorVars, primitiveVars>>

\* a render after which the effect has nothing to do: it sets no timer
render ==
    /\ ~ shouldAutoAnalyze(hookRef, analysisResult, isAnalyzing)
    /\ lastCall' = "render"
    /\ UNCHANGED <<hookRef, isAnalyzing, error, analysisResult, inFlight,
                   passes, before, attached, regenerated, callbacks, settled,
                   wrapper, retryAttempts, retryCount, seen, timers, retries>>
    /\ UNCHANGED <<analyzerVars, elementVars, generatorVars, primitiveVars>>

\* useAutoSkeleton: SkeletonComponent, by the class of what it renders
\* ("auto-skeleton": the generated component, or the auto-skeleton-error
\* block when generateSkeleton throws)
SkeletonComponent ==
    IF analysisResult = Null \/ error # Null
    THEN "auto-skeleton-fallback" ELSE "auto-skeleton"

\* withAutoSkeleton: the effect on [error], run by the render that finds
\* error changed to err; the number of onError calls it makes
errorEffect(w, err) ==
    IF w = "withAutoSkeleton" /\ err # Null THEN 1 ELSE 0

\* withAutoSkeletonAdvanced, onError: attempts remain, as the closure sees it
retryScheduled(count, attempts) == count < attempts

\* withAutoSkeletonAdvanced, onError: the delay of the retry timer
retryDelay(count) == RetryDelayMs * (count + 1)

\* withAutoSkeletonAdvanced: the retry timer that the failure of pass p
\* sets. The fields pass and nth are not in the code: the pass that failed,
\* and the number of the retry within the run of failures.
retryTimer(p) ==
    [pass |-> p, seen |-> seen[p], delay |-> retryDelay(seen[p]),
     nth |-> retries + 1]

\* useAutoSkeleton.analyzeComponent after its await: the pass resolved, and
\* options.onAnalysisComplete ran
passResolved ==
    \E p \in inFlight :
        /\ analysisResult' = resultOf(p)
        /\ isAnalyzing' = FALSE
        /\ inFlight' = inFlight \ {p}
        /\ settled' = [settled EXCEPT !.resolved = @ + 1]
        /\ callbacks' = [callbacks EXCEPT !.onAnalysisComplete = @ + 1]
        /\ retryCount' = IF wrapper = "withAutoSkeletonAdvanced"
                         THEN 0 ELSE retryCount
        /\ retries' = 0
        /\ lastCall' = "passResolved"
        /\ UNCHANGED <<hookRef, error, passes, before, attached, regenerated,
                       wrapper, retryAttempts, seen, timers>>
        /\ UNCHANGED <<analyzerVars, elementVars, generatorVars, primitiveVars>>

\* useAutoSkeleton.analyzeComponent after its await: the pass rejected, and
\* options.onError ran, the one of the closure that started the pass
passRejected ==
    \E p \in inFlight :
        \E code \in RejectionCodes :
            /\ error' = code
            /\ isAnalyzing' = FALSE
            /\ inFlight' = inFlight \ {p}
            /\ settled' = [settled EXCEPT !.rejected = @ + 1]
            /\ callbacks' = [callbacks EXCEPT
                               !.onError = @ + 1 + errorEffect(wrapper, code)]
            /\ IF /\ wrapper = "withAutoSkeletonAdvanced"
                  /\ retryScheduled(seen[p], retryAttempts)
               THEN /\ timers' = timers \cup {retryTimer(p)}
                    /\ retries' = retries + 1
               ELSE UNCHANGED <<timers, retries>>
            /\ lastCall' = "passRejected"
            /\ UNCHANGED <<hookRef, analysisResult, passes, before, attached,
                           regenerated, wrapper, retryAttempts, retryCount,
                           seen>>
            /\ UNCHANGED <<analyzerVars, elementVars, generatorVars,
                           primitiveVars>>

\* the element of the ref is mounted
refAttached ==
    /\ hookRef = "empty"
    /\ hookRef' = "element"
    /\ attached' = TRUE
    /\ lastCall' = "refAttached"
    /\ UNCHANGED <<isAnalyzing, error, analysisResult, inFlight, passes, before,
                   regenerated, callbacks, settled, wrapper, retryAttempts,
                   retryCount, seen, timers, retries>>
    /\ UNCHANGED <<analyzerVars, elementVars, generatorVars, primitiveVars>>

\* the element of the ref is unmounted
refDetached ==
    /\ hookRef = "element"
    /\ hookRef' = "empty"
    /\ lastCall' = "refDetached"
    /\ UNCHANGED <<isAnalyzing, error, analysisResult, inFlight, passes, before,
                   attached, regenerated, callbacks, settled, wrapper,
                   retryAttempts, retryCount, seen, timers, retries>>
    /\ UNCHANGED <<analyzerVars, elementVars, generatorVars, primitiveVars>>

NextHook ==
    \/ regenerateSkeleton
    \/ autoAnalyze
    \/ render
    \/ passResolved
    \/ passRejected
    \/ refAttached
    \/ refDetached

SpecHook == InitHook /\ [][NextHook]_vars

(***************************************************************************)
(* withAutoSkeletonAdvanced around the hook. The options object, and with  *)
(* it analyzeComponent and regenerateSkeleton, are made anew by every      *)
(* render: a pass reports to the onError of the render that started it.    *)
(***************************************************************************)
RetryOptions == {1, DefaultRetryAttempts}

InitAdvanced ==
    /\ NoAnalyzerCall
    /\ wrapper = "withAutoSkeletonAdvanced"
    /\ hookRef = "empty"
    /\ attached = FALSE
    /\ retryAttempts \in RetryOptions
    /\ FreshHook
    /\ NoGeneration
    /\ NoPrimitive

\* regenerateSkeleton as a timer of the HOC calls it: the one of the render
\* that set the timer, whose closure holds retryCount count
regenerateSkeletonFrom(ref, count) ==
    LET started == hookAnalyzeComponentOn(ref, count)
    IN  /\ analysisResult' = resultAfterRegenerate(analysisResult, isAnalyzing)
        /\ isAnalyzing' = started.isAnalyzing
        /\ error' = started.error
        /\ inFlight' = started.inFlight
        /\ passes' = started.passes
        /\ seen' = started.seen
        /\ regenerated' = TRUE

\* withAutoSkeletonAdvanced: the ref callback of a render that found neither
\* a result nor a pass, and its timer, which fires before the next render
refCallback ==
    /\ passes < MaxPasses
    /\ analysisResult = Null
    /\ ~ isAnalyzing
    /\ hookRef' = "element"
    /\ attached' = TRUE
    /\ regenerateSkeletonFrom("element", retryCount)
    /\ lastCall' = "refCallback"
    /\ UNCHANGED <<before, callbacks, settled, wrapper, retryAttempts,
                   retryCount, timers, retries>>
    /\ UNCHANGED <<analyzerVars, elementVars, generatorVars, primitiveVars>>

\* withAutoSkeletonAdvanced: a retry timer fires
retry ==
    \E t \in timers :
        /\ passes < MaxPasses
        /\ timers' = timers \ {t}
        /\ retryCount' = retryCount + 1
        /\ regenerateSkeletonFrom(hookRef, t.seen)
        /\ lastCall' = "retry"
        /\ UNCHANGED <<hookRef, before, attached, callbacks, settled, wrapper,
                       retryAttempts, retries>>
        /\ UNCHANGED <<analyzerVars, elementVars, generatorVars, primitiveVars>>

NextAdvanced ==
    \/ refCallback
    \/ retry
    \/ autoAnalyze
    \/ passResolved
    \/ passRejected

SpecAdvanced == InitAdvanced /\ [][NextAdvanced]_vars

(***************************************************************************)
(* Properties of useAutoSkeleton (specification SpecHook)                  *)
(***************************************************************************)
\* C8: when regenerateSkeleton has run, the previous result is gone,
\* whatever the hook held, and the call that started a pass left no error.
C8_RegenerateDiscardsResult ==
    lastCall = "regenerateSkeleton" =>
        /\ analysisResult = Null
        /\ before.hookRef = "element" =>
              /\ error = Null
              /\ isAnalyzing
              /\ passes \in inFlight

\* C8 witness: regenerateSkeleton ran while the hook held a result and a
\* pass was in flight, and started a new pass.
C8_Witness ==
    /\ lastCall = "regenerateSkeleton"
    /\ before.analysisResult # Null
    /\ before.inFlight # {}
    /\ before.hookRef = "element"
    /\ analysisResult = Null

\* a second witness state: regenerateSkeleton ran on a failed hook
C8_WitnessFailed ==
    /\ lastCall = "regenerateSkeleton"
    /\ before.error # Null
    /\ before.hookRef = "element"
    /\ error = Null

(***************************************************************************)
(* SkeletonGenerator                                                       *)
(*                                                                         *)
(* The generator's lengths are counted in tenths of a pixel, which holds   *)
(* fontSize * 1.2 and fontSize * 0.6 exactly. A number of a config is a    *)
(* record [unit, value]: unit "px" (tenths), "%", "n" (a count),           *)
(* "Infinity" or "NaN".                                                    *)
(***************************************************************************)
Tenths(n) == [unit |-> "px", value |-> n]
Pixels(n) == Tenths(10 * n)
Percent(n) == [unit |-> "%", value |-> n]
Count(n) == [unit |-> "n", value |-> n]
Infinity == [unit |-> "Infinity", value |-> 0]
NaN == [unit |-> "NaN", value |-> 0]

\* Math.round of a length that is not negative
round(x) == ((x + 5) \div 10) * 10

\* Math.ceil(a / b) for a >= 0 and b > 0
ceilDiv(a, b) == (a + b - 1) \div b

\* Seeded fault: the font size is not read.
extractFontSizeUnread(fontSize) == 16

\* SkeletonGenerator.extractFontSize (pixels)
extractFontSize(fontSize) ==
    IF fontSize = <<>> THEN 16
    ELSE IF matchDigits(fontSize) >= 0 THEN matchDigits(fontSize) ELSE 16

\* SkeletonGenerator.extractPixelValue (pixels)
extractPixelValue(value) ==
    IF matchDigits(value) >= 0 THEN matchDigits(value) ELSE 0

\* SkeletonGenerator.calculateWidth
calculateWidth(element) ==
    LET width == element.dimensions.width
    IN  IF width = 0 THEN Percent(100)
        ELSE IF width < 500 THEN Tenths(Max(width, 200))
        ELSE IF width > 8000 THEN Percent(100)
        ELSE Tenths(round(width))

\* SkeletonGenerator.calculateTextHeight
calculateTextHeight(element) ==
    LET fontSize == extractFontSize(element.styles.fontSize)
        lineHeight == 12 * fontSize
        width == element.dimensions.width
        averageCharWidth == 6 * fontSize
    IN  IF Len(element.textContent) = 0 THEN Tenths(lineHeight)
        ELSE IF averageCharWidth = 0
        THEN (IF width = 0 THEN NaN ELSE Tenths(0))
        ELSE LET maxCharsPerLine == width \div averageCharWidth
             IN  IF maxCharsPerLine = 0 THEN Infinity
                 ELSE LET estimatedLines ==
                            ceilDiv(Len(element.textContent), maxCharsPerLine)
                      IN  Tenths(Max(lineHeight, estimatedLines * lineHeight))

\* SkeletonGenerator.calculateHeight
calculateHeight(element) ==
    LET height == element.dimensions.height
    IN  IF element.elementType = "text" THEN calculateTextHeight(element)
        ELSE IF height = 0 THEN Pixels(20)
        ELSE IF height < 100 THEN Pixels(16)
        ELSE Tenths(round(height))

\* SkeletonGenerator.determineShape
determineShape(element) ==
    IF element.elementType = "avatar" \/ element.elementType = "icon"
    THEN "circular"
    ELSE LET borderRadius == element.styles.borderRadius
             radiusValue == extractPixelValue(borderRadius)
             minDimension == Min(element.dimensions.width, element.dimensions.height)
         IN  IF borderRadius # <<>> /\ borderRadius # <<"0","p","x">>
             THEN IF 2 * 10 * radiusValue >= minDimension THEN "circular"
                  ELSE IF radiusValue > 4 THEN "rounded"
                  ELSE "rectangular"
             ELSE "rectangular"

\* SkeletonGenerator.calculateTextLines
calculateTextLines(element) ==
    LET fontSize == extractFontSize(element.styles.fontSize)
        lineHeight == 12 * fontSize
        height == element.dimensions.height
    IN  IF Len(element.textContent) = 0 THEN Count(1)
        ELSE IF lineHeight = 0
        THEN (IF height = 0 THEN NaN ELSE Count(5))
        ELSE Count(Max(1, Min(ceilDiv(height, lineHeight), 5)))

\* { ...a, ...b }
spread(a, b) ==
    [k \in DOMAIN a \cup DOMAIN b |-> IF k \in DOMAIN b THEN b[k] ELSE a[k]]

\* Math.max(config.height, n pixels)
maxHeight(height, n) ==
    IF height.unit = "px" THEN Tenths(Max(height.value, 10 * n)) ELSE height

\* Seeded fault: an avatar is as large as the element is wide.
avatarSizeWidth(element) == element.dimensions.width

\* enhanceConfigForElementType, case 'avatar':
\* Math.min(element.dimensions.width, element.dimensions.height)
avatarSize(element) ==
    Min(element.dimensions.width, element.dimensions.height)

\* SkeletonGenerator.enhanceConfigForElementType
enhanceConfigForElementType(cfg, element) ==
    CASE element.elementType = "text" ->
            spread(cfg, [lines |-> calculateTextLines(element),
                         height |-> calculateTextHeight(element)])
      [] element.elementType = "image" ->
            spread(cfg, [shape |-> IF cfg.shape = "rectangular"
                                   THEN "rounded" ELSE cfg.shape])
      [] element.elementType = "button" ->
            spread(cfg, [shape |-> "rounded", height |-> maxHeight(cfg.height, 36)])
      [] element.elementType = "avatar" ->
            spread(cfg, [shape |-> "circular",
                         width |-> Tenths(avatarSize(element)),
                         height |-> Tenths(avatarSize(element))])
      [] element.elementType = "input" ->
            spread(cfg, [shape |-> "rounded", height |-> maxHeight(cfg.height, 40)])
      [] OTHER -> cfg

\* SkeletonGenerator.applyCustomOverrides: possibleKeys
possibleKeys(element) ==
    << element.id,
       "." \o element.tagName,
       element.tagName,
       ".auto-skeleton-" \o element.elementType >>

\* Seeded fault: the last key that matches wins.
applyCustomOverridesLastMatch(cfg, element, opts) ==
    IF "customOverrides" \notin DOMAIN opts THEN cfg
    ELSE LET overrides == opts.customOverrides
             keys == possibleKeys(element)
             matching == {k \in 1..Len(keys) : keys[k] \in DOMAIN overrides}
         IN  IF matching = {} THEN cfg
             ELSE spread(cfg, overrides[keys[CHOOSE k \in matching :
                                               \A m \in matching : m <= k]])

\* SkeletonGenerator.applyCustomOverrides
applyCustomOverrides(cfg, element, opts) ==
    IF "customOverrides" \notin DOMAIN opts THEN cfg
    ELSE LET overrides == opts.customOverrides
             RECURSIVE loop(_)
             loop(keys) ==
                 IF keys = <<>> THEN cfg
                 ELSE IF Head(keys) \in DOMAIN overrides
                 THEN spread(cfg, overrides[Head(keys)])
                 ELSE loop(Tail(keys))
         IN  loop(possibleKeys(element))

\* a field of an object, or what the code puts in its place when the field
\* is undefined
field(object, name, otherwise) ==
    IF name \in DOMAIN object THEN object[name] ELSE otherwise

\* { ...this.animation, ...options.animation }
mergedAnimation(opts) ==
    spread(animation, field(opts, "animation", <<>>))

\* SkeletonGenerator.mergeOptions
mergeOptions(opts) ==
    spread([animation |-> mergedAnimation(opts),
            theme |-> spread(theme, field(opts, "theme", <<>>))],
           opts)

\* SkeletonGenerator.generateBaseStyle
generateBaseStyle(element) ==
    [margin |-> field(element.styles, "margin", "0"),
     padding |-> "0",
     display |-> field(element.styles, "display", "block"),
     position |-> IF field(element.styles, "position", "static") = "absolute"
                  THEN "absolute" ELSE "static"]

\* SkeletonGenerator.convertSingleElement: baseConfig
baseConfig(element, opts) ==
    [type |-> element.elementType,
     width |-> calculateWidth(element),
     height |-> calculateHeight(element),
     shape |-> determineShape(element),
     animation |-> mergedAnimation(opts),
     style |-> generateBaseStyle(element)]

\* SkeletonGenerator.convertSingleElement
convertSingleElement(element, opts) ==
    applyCustomOverrides(
        enhanceConfigForElementType(baseConfig(element, opts), element),
        element, opts)

\* SkeletonGenerator.convertElementsToSkeletonConfig
convertElementsToSkeletonConfig(elements, opts) ==
    [k \in 1..Len(elements) |-> convertSingleElement(elements[k], opts)]

\* convertSingleElement reads element.dimensions and element.styles: a
\* TypeError when the element has none
convertSingleElementThrows(element) ==
    "dimensions" \notin DOMAIN element \/ "styles" \notin DOMAIN element

\* SkeletonGenerator.getSkeletonColor
getSkeletonColor ==
    IF theme.type = "dark" THEN field(theme, "baseColor", "#2d2d2d")
    ELSE field(theme, "baseColor", "#e0e0e0")

\* SkeletonGenerator.getBorderRadius
getBorderRadius(shape) ==
    CASE shape = "circular" -> "50%"
      [] shape = "rounded" -> ToString(field(theme, "borderRadius", 8)) \o "px"
      [] OTHER -> "4px"

\* SkeletonGenerator.getAnimationCSS
getAnimationCSS(a) ==
    IF "type" \notin DOMAIN a \/ a.type = "none" THEN "none"
    ELSE LET given == field(a, "duration", 0)
             duration == IF given # 0 THEN given ELSE DefaultAnimationDuration
             direction == field(a, "direction", "normal")
         IN  "auto-skeleton-" \o a.type \o " " \o ToString(duration)
                 \o "ms infinite " \o direction

\* height: 'auto'
Auto == [unit |-> "auto", value |-> 0]

\* Seeded fault: the last line is as wide as the others.
lineWidthFull(lineIndex, lines) == Percent(100)

\* createSkeletonElement: the width of line lineIndex (from 0) of lines
lineWidth(lineIndex, lines) ==
    IF lineIndex = lines - 1 THEN Percent(70) ELSE Percent(100)

\* createSkeletonElement: config.lines && config.lines > 1
hasLines(cfg) ==
    /\ "lines" \in DOMAIN cfg
    /\ cfg.lines.unit = "n"
    /\ cfg.lines.value > 1

\* SkeletonGenerator.createSkeletonElement
createSkeletonElement(cfg, key, opts) ==
    LET baseStyle ==
            spread([width |-> cfg.width,
                    height |-> cfg.height,
                    backgroundColor |-> getSkeletonColor,
                    borderRadius |-> getBorderRadius(field(cfg, "shape", "rectangular")),
                    animation |-> getAnimationCSS(field(cfg, "animation", <<>>))],
                   field(cfg, "style", <<>>))
        fontSize == extractFontSize(field(field(cfg, "style", <<>>), "fontSize", <<>>))
        line(lineIndex) ==
            [key |-> lineIndex,
             style |-> spread(baseStyle,
                 [height |-> IF fontSize # 0 THEN Tenths(12 * fontSize)
                             ELSE Pixels(16),
                  marginBottom |-> IF lineIndex < cfg.lines.value - 1
                                   THEN "4px" ELSE "0",
                  width |-> lineWidth(lineIndex, cfg.lines.value)])]
    IN  IF cfg.type = "text" /\ hasLines(cfg)
        THEN [key |-> key,
              className |-> "auto-skeleton-text auto-skeleton-" \o cfg.type,
              style |-> spread(baseStyle, [height |-> Auto]),
              children |-> [i \in 1..cfg.lines.value |-> line(i - 1)]]
        ELSE [key |-> key,
              className |-> "auto-skeleton-element auto-skeleton-" \o cfg.type,
              style |-> baseStyle,
              children |-> <<>>]

\* createSkeletonComponent reads layout.containerType: a TypeError when the
\* analysis result has no layout
createSkeletonComponentThrows(lay) == "containerType" \notin DOMAIN lay

\* SkeletonGenerator.createSkeletonComponent
createSkeletonComponent(configs, lay, opts) ==
    [className |-> "auto-skeleton-root",
     style |-> [display |-> lay.containerType,
                flexDirection |-> field(lay, "direction", "row"),
                gap |-> field(lay, "gap", 0),
                alignItems |-> lay.alignItems,
                justifyContent |-> lay.justifyContent,
                width |-> Percent(100)],
     ariaBusy |-> "true",
     ariaLabel |-> "Loading content...",
     children |-> [k \in 1..Len(configs) |->
                      createSkeletonElement(configs[k], k - 1, opts)]]

\* SkeletonGenerator.calculateComplexity
RECURSIVE calculateComplexity(_)
calculateComplexity(configs) ==
    IF configs = <<>> THEN 0
    ELSE LET cfg == Head(configs)
             a == field(cfg, "animation", <<>>)
         IN  1 + (IF hasLines(cfg) THEN cfg.lines.value ELSE 0)
               + (IF field(a, "type", "undefined") # "none" THEN 1 ELSE 0)
               + (IF field(cfg, "shape", "undefined") = "circular" THEN 1 ELSE 0)
               + calculateComplexity(Tail(configs))

\* Seeded fault: the catch block rethrows what it caught.
generationFailedRethrown(cause, generationTime) ==
    [settled |-> "threw", name |-> cause, code |-> "", cause |-> cause,
     context |-> <<>>]

\* generateSkeleton: the catch block
generationFailed(cause, generationTime) ==
    [settled |-> "threw", name |-> "AutoSkeletonError",
     code |-> "GENERATION_FAILED", cause |-> cause,
     context |-> [generationTime |-> generationTime]]

(***************************************************************************)
(* SkeletonGenerator.generateSkeleton, one call                            *)
(***************************************************************************)
Analyzed(id, tag, type, w, h, fontSize, borderRadius, text, kids) ==
    [id |-> id, tagName |-> tag, elementType |-> type,
     dimensions |-> [width |-> 10 * w, height |-> 10 * h, x |-> 0, y |-> 0],
     styles |-> [fontSize |-> fontSize, borderRadius |-> borderRadius],
     textContent |-> text, isVisible |-> TRUE, children |-> kids]

Title == Analyzed("h1-0-title", "h1", "text", 80, 20,
                  <<"2","0","p","x">>, <<"0","p","x">>, "Title", <<>>)
Picture == Analyzed("img-0-r2", "img", "image", 320, 180,
                    <<>>, <<"0","p","x">>, "", <<>>)
Avatar == Analyzed("div-0-avatar", "div", "avatar", 48, 64,
                   <<>>, <<"8","p","x">>, "", <<>>)

\* an img carrying the class avatar, as the analyzer records it: the id from
\* generateElementId, the type from classifyElement
PortraitElement ==
    El("img", FALSE, << <<"a","v","a","t","a","r">> >>, <<>>,
       "visible", "inline", "1", 64, 64)
Portrait == Analyzed(generateElementId(PortraitElement, 0, 1), "img",
                     classifyElement(PortraitElement), 64, 64,
                     <<>>, <<"0","p","x">>, "", <<>>)
\* a paragraph of several lines
Paragraph == Analyzed("p-0-r3", "p", "text", 200, 60,
                      <<"1","6","p","x">>, <<"0","p","x">>, "Lorem ipsum", <<>>)
\* text set in font-size 0 that takes no room
ZeroFont == Analyzed("span-0-r4", "span", "text", 0, 0,
                     <<"0","p","x">>, <<"0","p","x">>, "x", <<>>)
\* a word in a box narrower than one character of its font (9.6 pixels)
Narrow == Analyzed("span-0-r6", "span", "text", 5, 19,
                   <<"1","6","p","x">>, <<"0","p","x">>, "Hi", <<>>)
\* an avatar wider than high
WideAvatar == Analyzed("div-0-profile", "div", "avatar", 96, 40,
                       <<>>, <<"5","0","%">>, "", <<>>)

AnalyzedLeaves == {Title, Picture, Avatar, Portrait, WideAvatar}

\* a container with nothing, one element or two elements below it
AnalyzedContainers ==
    { Analyzed("div-0-card", "div", "card", 400, 300, <<>>,
               <<"1","2","p","x">>, "", kids) :
        kids \in {<<>>, <<Title>>, <<Picture, Title>>} }

Analyses ==
    UNION { [1..n -> AnalyzedLeaves \cup AnalyzedContainers] :
              n \in 1..MaxTopElements }

\* The overrides a caller may give, each with fields of its own.
OverrideTable ==
    [k \in {"h1-0-title", ".h1", "h1", ".auto-skeleton-text", "img",
            ".auto-skeleton-avatar", ".avatar"} |->
        CASE k = "h1-0-title" -> [width |-> Pixels(200), height |-> Pixels(30)]
          [] k = ".h1" -> [shape |-> "circular"]
          [] k = "h1" -> [width |-> Pixels(150)]
          [] k = ".auto-skeleton-text" -> [lines |-> Count(2), shape |-> "rounded"]
          [] k = "img" -> [shape |-> "circular"]
          [] k = ".avatar" -> [shape |-> "circular"]
          [] k = ".auto-skeleton-avatar" ->
                [width |-> Pixels(32), height |-> Pixels(32)] ]

\* The caller gives no options, or up to MaxOverrides overrides.
OptionSets ==
    { [none |-> TRUE] } \cup
    { [customOverrides |-> [k \in keys |-> OverrideTable[k]]] :
        keys \in { ks \in SUBSET DOMAIN OverrideTable :
                     Cardinality(ks) <= MaxOverrides } }

\* how long a call of generateSkeleton may take (ms)
GenerationTimes == {0, MaxGenerationTime}

InitGenerate ==
    /\ NoAnalyzerCall
    /\ NoHook
    /\ NoPrimitive
    /\ analysis \in Analyses
    /\ options \in OptionSets
    /\ generation = [config |-> <<>>]
    /\ layout = BlockLayout
    /\ theme = DefaultTheme
    /\ animation = DefaultAnimation
    /\ prefersReducedMotion = FALSE
    /\ updates = 0

\* what the try block of generateSkeleton throws, or Null
generateSkeletonThrows ==
    IF \E k \in 1..Len(analysis) : convertSingleElementThrows(analysis[k])
    THEN "TypeError"
    ELSE IF createSkeletonComponentThrows(layout) THEN "TypeError"
    ELSE Null

\* SkeletonGenerator.generateSkeleton; the call takes generationTime ms
generateSkeleton ==
    /\ pc = "idle"
    /\ \E generationTime \in GenerationTimes :
          /\ now' = now + generationTime
          /\ IF generateSkeletonThrows # Null
             THEN /\ pc' = "threw"
                  /\ generation' =
                        generationFailed(generateSkeletonThrows, generationTime)
             ELSE LET mergedOptions == mergeOptions(options)
                      skeletonConfigs ==
                          convertElementsToSkeletonConfig(analysis, mergedOptions)
                      component ==
                          createSkeletonComponent(skeletonConfigs, layout,
                                                  mergedOptions)
                  IN  /\ pc' = "returned"
                      /\ generation' =
                            [component |-> component,
                             config |-> skeletonConfigs,
                             metadata |->
                                [generationTime |-> generationTime,
                                 complexity |-> calculateComplexity(skeletonConfigs),
                                 elementCount |-> Len(skeletonConfigs)]]
    /\ UNCHANGED <<config, env, componentRef, timeoutOption, start,
                   lastDimensions, currentDimensions, dom, outcome>>
    /\ UNCHANGED <<elementVars, hookVars, primitiveVars, analysis, options, layout, theme,
                   animation, prefersReducedMotion, updates>>

NextGenerate == generateSkeleton

SpecGenerate == InitGenerate /\ [][NextGenerate]_vars

(***************************************************************************)
(* A generator constructed with a theme and an animation of the caller's,  *)
(* updated, then asked for one skeleton                                    *)
(***************************************************************************)
\* the h1 and the img of a root with two children, in the font size and
\* with the border radius the stylesheet gives them
TitleIn(fontSize) ==
    Analyzed("h1-0-r1", "h1", "text", 80, 20, fontSize, <<"0","p","x">>,
             "Title", <<>>)
PictureWith(borderRadius) ==
    Analyzed("img-0-r2", "img", "image", 320, 180, <<>>, borderRadius, "", <<>>)

FontSizes == { <<>>, <<"1","6","p","x">>, <<"2","0","p","x">>,
               <<"3","2","p","x">> }
BorderRadii == { <<"0","p","x">>, <<"8","p","x">>, <<"1","0","0","p","x">> }

\* an element of a hand-made analysis result that has no styles
Unstyled ==
    [id |-> "div-0-r5", tagName |-> "div", elementType |-> "avatar",
     dimensions |-> [width |-> 400, height |-> 400, x |-> 0, y |-> 0],
     isVisible |-> TRUE, children |-> <<>>]

ConfiguredAnalyses ==
    { <<TitleIn(f), PictureWith(r)>> : f \in FontSizes, r \in BorderRadii }
      \cup { <<Unstyled>>, <<Title, Unstyled>>, <<Paragraph>>,
              <<Paragraph, ZeroFont>>, <<Paragraph, Narrow>> }

\* an analysis result without a layout
NoLayout == [undefined |-> TRUE]

ConstructorAnimations ==
    { DefaultAnimation, [type |-> "pulse"], [type |-> "fade", duration |-> 2000] }

ConstructorThemes == { DefaultTheme, [type |-> "dark", borderRadius |-> 12] }

AnimationOptions ==
    { [none |-> TRUE],
      [animation |-> [type |-> "wave"]],
      [animation |-> [type |-> "pulse", duration |-> 800]],
      [respectUserMotion |-> TRUE],
      [respectUserMotion |-> TRUE, animation |-> [type |-> "wave"]],
      [respectUserMotion |-> FALSE],
      [lastLineWidth |-> "50%"] }

AnimationUpdates == { [type |-> "wave"], [duration |-> 800], [type |-> "none"] }

InitConfigured ==
    /\ NoAnalyzerCall
    /\ NoHook
    /\ NoPrimitive
    /\ analysis \in ConfiguredAnalyses
    /\ options \in AnimationOptions
    /\ generation = [config |-> <<>>]
    /\ layout \in {BlockLayout, FlexLayout, NoLayout}
    /\ theme \in ConstructorThemes
    /\ animation \in ConstructorAnimations
    /\ prefersReducedMotion \in BOOLEAN
    /\ updates = 0

\* SkeletonGenerator.updateAnimation
updateAnimation ==
    /\ pc = "idle"
    /\ updates < MaxUpdates
    /\ \E partial \in AnimationUpdates :
          animation' = spread(animation, partial)
    /\ updates' = updates + 1
    /\ UNCHANGED <<analyzerVars, elementVars, hookVars, primitiveVars, analysis, options,
                   generation, layout, theme, prefersReducedMotion>>

NextConfigured ==
    \/ updateAnimation
    \/ generateSkeleton

SpecConfigured == InitConfigured /\ [][NextConfigured]_vars

(***************************************************************************)
(* Properties of generateSkeleton (specification SpecGenerate)             *)
(***************************************************************************)
\* The number of analyzed elements in a sequence, the nested ones included.
RECURSIVE countElements(_)
countElements(elements) ==
    IF elements = <<>> THEN 0
    ELSE 1 + countElements(Head(elements).children)
           + countElements(Tail(elements))

\* C9 as claimed: generate returns one config for every analyzed element of
\* the result, the elements nested under children included.
C9_OneConfigPerElement ==
    pc = "returned" =>
        Len(generation.config) = countElements(analysis)

\* The config of an element before the overrides are applied.
computedConfig(e) == enhanceConfigForElementType(baseConfig(e, options), e)

\* The keys of an element present in the overrides, in the order of their
\* priority: 1 the id, 2 .tagName, 3 tagName, 4 .auto-skeleton-elementType.
KeyAt(e, rank) ==
    CASE rank = 1 -> e.id
      [] rank = 2 -> "." \o e.tagName
      [] rank = 3 -> e.tagName
      [] rank = 4 -> ".auto-skeleton-" \o e.elementType

PresentRanks(e) ==
    IF "customOverrides" \in DOMAIN options
    THEN {r \in 1..4 : KeyAt(e, r) \in DOMAIN options.customOverrides}
    ELSE {}

CarriesClass(e, class) == e.id = e.tagName \o "-0-" \o class

\* the override given under a key, if any
OverrideGiven(key) ==
    /\ "customOverrides" \in DOMAIN options
    /\ key \in DOMAIN options.customOverrides

\* C11 as claimed: with the override {'.avatar': {shape: 'circular'}}, an
\* element that carries the class avatar and whose computed shape is rounded
\* ends with the shape circular.
C11_ClassOverrideApplies ==
    pc = "returned" =>
        \A k \in 1..Len(analysis) :
            ( /\ CarriesClass(analysis[k], "avatar")
              /\ OverrideGiven(".avatar")
              /\ options.customOverrides[".avatar"] = [shape |-> "circular"]
              /\ computedConfig(analysis[k]).shape = "rounded" )
            => generation.config[k].shape = "circular"

\* The config has a number of lines larger than one.
SeveralLines(cfg) ==
    /\ cfg.type = "text"
    /\ "lines" \in DOMAIN cfg
    /\ cfg.lines.unit = "n"
    /\ cfg.lines.value > 1

\* C13: in the component, a text config of N > 1 lines is a wrapper of the
\* configured width holding N lines; every line but the last takes the full
\* width of the wrapper and the last takes 70% of it, whatever lastLineWidth
\* the caller gave.
C13_LastLineSeventyPercent ==
    pc = "returned" =>
        \A k \in 1..Len(generation.config) :
            LET cfg == generation.config[k]
                node == generation.component.children[k]
            IN  SeveralLines(cfg) =>
                  /\ Len(node.children) = cfg.lines.value
                  /\ node.style.width = cfg.width
                  /\ \A i \in 1..Len(node.children) :
                        node.children[i].style.width =
                            IF i = Len(node.children)
                            THEN [unit |-> "%", value |-> 70]
                            ELSE [unit |-> "%", value |-> 100]

\* C13 witness: a text of four lines was generated for a caller that asked
\* for another lastLineWidth.
C13_Witness ==
    /\ pc = "returned"
    /\ "lastLineWidth" \in DOMAIN options
    /\ \E k \in 1..Len(generation.config) :
          /\ SeveralLines(generation.config[k])
          /\ generation.config[k].lines.value = 4
          /\ Len(generation.component.children[k].children) = 4

\* the line placeholders the component holds for its element k
RenderedLines(k) ==
    LET node == generation.component.children[k]
    IN  IF node.children = <<>> THEN 1 ELSE Len(node.children)

\* C14 as claimed: lines, when present, is a positive integer, at most 5
\* when the generator computed it, and the component holds that many line
\* placeholders for the element.
C14_LinesPositive ==
    pc = "returned" =>
        \A k \in 1..Len(generation.config) :
            LET cfg == generation.config[k]
            IN  "lines" \in DOMAIN cfg =>
                  /\ cfg.lines.unit = "n"
                  /\ cfg.lines.value >= 1
                  /\ PresentRanks(analysis[k]) = {} => cfg.lines.value <= 5
                  /\ RenderedLines(k) = cfg.lines.value

\* C15: an avatar no override matches gets the width and the height of the
\* smaller of its two dimensions and the shape circular.
C15_AvatarSquare ==
    pc = "returned" =>
        \A k \in 1..Len(analysis) :
            LET e == analysis[k]
                cfg == generation.config[k]
                smaller == IF e.dimensions.width <= e.dimensions.height
                           THEN e.dimensions.width ELSE e.dimensions.height
            IN  (e.elementType = "avatar" /\ PresentRanks(e) = {}) =>
                  /\ cfg.width = [unit |-> "px", value |-> smaller]
                  /\ cfg.height = [unit |-> "px", value |-> smaller]
                  /\ cfg.shape = "circular"

\* C15 witness: an avatar wider than high, with a border radius, was
\* converted with no override.
C15_Witness ==
    /\ pc = "returned"
    /\ \E k \in 1..Len(analysis) :
          /\ analysis[k].elementType = "avatar"
          /\ analysis[k].dimensions.width > analysis[k].dimensions.height
          /\ analysis[k].styles.borderRadius # <<>>
          /\ PresentRanks(analysis[k]) = {}
          /\ generation.config[k].width = generation.config[k].height

(***************************************************************************)
(* Properties of a configured generator (specification SpecConfigured)     *)
(***************************************************************************)
\* C12 as claimed: with respectUserMotion and a host that prefers reduced
\* motion, every config has the animation type none.
C12_ReducedMotionForcesNone ==
    (/\ pc = "returned"
     /\ "respectUserMotion" \in DOMAIN options
     /\ options.respectUserMotion
     /\ prefersReducedMotion)
    => \A k \in 1..Len(generation.config) :
          generation.config[k].animation.type = "none"

\* The analysis result is one generateSkeleton cannot convert or lay out.
Unconvertible ==
    \/ \E k \in 1..Len(analysis) :
          ~ ({"dimensions", "styles"} \subseteq DOMAIN analysis[k])
    \/ "containerType" \notin DOMAIN layout

\* C16: a call that meets an exception throws an AutoSkeletonError of code
\* GENERATION_FAILED that carries the time the call took, and nothing of a
\* result; any other call returns a result.
C16_GenerationFailed ==
    pc # "idle" =>
        IF Unconvertible
        THEN /\ pc = "threw"
             /\ generation.name = "AutoSkeletonError"
             /\ generation.code = "GENERATION_FAILED"
             /\ generation.context = [generationTime |-> now]
             /\ DOMAIN generation \cap {"config", "component", "metadata"} = {}
        ELSE /\ pc = "returned"
             /\ {"config", "component", "metadata"} \subseteq DOMAIN generation

\* C16 witness: the second element could not be converted, after the first
\* was, and the call that took some time threw.
C16_Witness ==
    /\ pc = "threw"
    /\ Len(analysis) = 2
    /\ "styles" \in DOMAIN analysis[1]
    /\ "styles" \notin DOMAIN analysis[2]
    /\ generation.context.generationTime > 0

\* C17 as claimed: a field of the animation that neither options.animation
\* nor the generator's animation sets has the value of the built-in default
\* (shimmer, 1500 ms); here the duration.
C17_AnimationDefaultsMerged ==
    pc = "returned" =>
        \A k \in 1..Len(generation.config) :
            LET a == generation.config[k].animation
                given == IF "animation" \in DOMAIN options
                         THEN options.animation ELSE <<>>
            IN  ("duration" \notin DOMAIN given /\ "duration" \notin DOMAIN animation)
                => /\ "duration" \in DOMAIN a
                   /\ a.duration = 1500

\* the root of the scenario: an h1 'Title' measured 80x20 and an img
\* measured 320x180
TitleAndPicture ==
    /\ Len(analysis) = 2
    /\ analysis[1].tagName = "h1"
    /\ analysis[1].textContent = "Title"
    /\ analysis[1].dimensions.width = 800 /\ analysis[1].dimensions.height = 200
    /\ analysis[2].tagName = "img"
    /\ analysis[2].dimensions.width = 3200 /\ analysis[2].dimensions.height = 1800

\* what C20 expects of the two configs
TitleAndPictureConfigs ==
    /\ Len(generation.config) = 2
    /\ generation.config[1].type = "text"
    /\ generation.config[1].width = [unit |-> "px", value |-> 800]
    /\ generation.config[1].height = [unit |-> "px", value |-> 240]
    /\ generation.config[1].lines = [unit |-> "n", value |-> 1]
    /\ generation.config[2].type = "image"
    /\ generation.config[2].width = [unit |-> "px", value |-> 3200]
    /\ generation.config[2].height = [unit |-> "px", value |-> 1800]
    /\ generation.config[2].shape = "rounded"

\* C20 as claimed: the scenario gives a text config of 80x24 and a rounded
\* image config of 320x180.
C20_TitleAndPicture ==
    (pc = "returned" /\ TitleAndPicture) => TitleAndPictureConfigs

\* C20: the scenario gives these configs when the h1 is set in 20px and the
\* border radius of the img is under half its height.
C20_TitleInTwentyPixels ==
    (/\ pc = "returned"
     /\ TitleAndPicture
     /\ analysis[1].styles.fontSize = <<"2","0","p","x">>
     /\ analysis[2].styles.borderRadius \in { <<"0","p","x">>, <<"8","p","x">> })
    => TitleAndPictureConfigs

\* C20 witness: the scenario in 20px, generated.
C20_Witness ==
    /\ pc = "returned"
    /\ TitleAndPicture
    /\ analysis[1].styles.fontSize = <<"2","0","p","x">>
    /\ analysis[2].styles.borderRadius = <<"0","p","x">>
    /\ TitleAndPictureConfigs

(***************************************************************************)
(* DimensionCalculator (src/unnamed/part_001)                              *)
(*                                                                         *)
(* Its lengths are whole pixels going in; a length coming out is the       *)
(* quotient num / den of two integers, which keeps 800 / aspectRatio and   *)
(* 600 * aspectRatio exact.                                                *)
(***************************************************************************)
Quotient(num, den) == [unit |-> "px", num |-> num, den |-> den]
Whole(n) == Quotient(n, 1)
FullWidth == [unit |-> "%", num |-> 100, den |-> 1]

\* DimensionCalculator.calculateTextDimensions
calculateTextDimensions(dimensions, textContent) ==
    LET width == dimensions.width
        height == dimensions.height
        estimatedCharWidth == 8
        minTextWidth == Min(Len(textContent) * estimatedCharWidth, width)
    IN  IF textContent = ""
        THEN [width |-> Whole(IF width > 0 THEN width ELSE 100),
              height |-> Whole(Max(height, 16))]
        ELSE [width |-> Whole(Max(minTextWidth, 20)),
              height |-> Whole(Max(height, 16))]

\* DimensionCalculator.calculateImageDimensions; aspectRatio is width / height
calculateImageDimensions(dimensions) ==
    LET width == dimensions.width
        height == dimensions.height
    IN  IF width = 0 \/ height = 0
        THEN [width |-> Whole(200), height |-> Whole(150)]
        ELSE IF width > 800
        THEN [width |-> Whole(800), height |-> Quotient(800 * height, width)]
        ELSE IF height > 600
        THEN [width |-> Quotient(600 * width, height), height |-> Whole(600)]
        ELSE [width |-> Whole(width), height |-> Whole(height)]

\* DimensionCalculator.calculateOptimalSkeletonDimensions
calculateOptimalSkeletonDimensions(originalDimensions, type, textContent) ==
    LET width == originalDimensions.width
        height == originalDimensions.height
    IN  CASE type = "text" ->
                calculateTextDimensions(originalDimensions, textContent)
          [] type = "avatar" ->
                [width |-> Whole(Min(width, height)),
                 height |-> Whole(Min(width, height))]
          [] type = "button" ->
                [width |-> Whole(Max(width, 80)), height |-> Whole(Max(height, 32))]
          [] type = "image" ->
                calculateImageDimensions(originalDimensions)
          [] type = "input" ->
                [width |-> Whole(IF width > 0 THEN width ELSE 200),
                 height |-> Whole(Max(height, 40))]
          [] OTHER ->
                [width |-> IF width > 0 THEN Whole(width) ELSE FullWidth,
                 height |-> Whole(IF height > 0 THEN height ELSE 20)]

\* Sizes below, at and beyond the caps of an image, in both proportions.
OriginalWidths == {0, 400, 800, 801, 1000, 1600}
OriginalHeights == {0, 300, 600, 601, 1200, 2000}

OriginalElements ==
    [dimensions : [width : OriginalWidths, height : OriginalHeights,
                   x : {0}, y : {0}],
     elementType : {"text", "avatar", "button", "image", "input", "container"},
     textContent : {"", "Hello"}]

InitDimensions ==
    /\ NoAnalysis
    /\ config \in [measurementThreshold : {DefaultMeasurementThreshold},
                   maxDepth : {DefaultMaxDepth},
                   ignoreInvisibleElements : {TRUE}]
    /\ theElement \in OriginalElements
    /\ theWindow = Window
    /\ isVisible = FALSE
    /\ elementType = Null
    /\ styles = Null
    /\ optimal = Null
    /\ NoHook
    /\ NoPrimitive
    /\ NoGeneration

\* a call of DimensionCalculator.calculateOptimalSkeletonDimensions
calculateOptimalSkeletonDimensionsCall ==
    /\ pc = "idle"
    /\ pc' = "returned"
    /\ optimal' = calculateOptimalSkeletonDimensions(
                      theElement.dimensions, theElement.elementType,
                      theElement.textContent)
    /\ UNCHANGED <<config, env, componentRef, timeoutOption, now, start,
                   lastDimensions, currentDimensions, dom, outcome>>
    /\ UNCHANGED <<theElement, theWindow, isVisible, elementType, styles,
                   hookVars, primitiveVars, generatorVars>>

NextDimensions == calculateOptimalSkeletonDimensionsCall

SpecDimensions == InitDimensions /\ [][NextDimensions]_vars

\* C18 as claimed: an image with a width and a height gets a size within
\* 800 x 600 in the proportion it came with.
C18_ImageWithinCaps ==
    (/\ pc = "returned"
     /\ theElement.elementType = "image"
     /\ theElement.dimensions.width # 0
     /\ theElement.dimensions.height # 0)
    => /\ optimal.width.num <= 800 * optimal.width.den
       /\ optimal.height.num <= 600 * optimal.height.den
       /\ optimal.width.num * optimal.height.den * theElement.dimensions.height
            = optimal.height.num * optimal.width.den * theElement.dimensions.width

(***************************************************************************)
(* Style extraction, one element                                           *)
(***************************************************************************)
\* the text of rgb(r, g, b), or of rgba(r, g, b, a) when there is an alpha
ColourText(r, g, b, a) ==
    IF a = <<>>
    THEN <<"r","g","b","(">> \o r \o <<","," ">> \o g \o <<","," ">> \o b
            \o <<")">>
    ELSE <<"r","g","b","a","(">> \o r \o <<","," ">> \o g \o <<","," ">> \o b
            \o <<","," ">> \o a \o <<")">>

Channels == { <<"0">>, <<"1","6">>, <<"2","5","5">> }
Alphas == { <<>>, <<"0">>, <<"0",".","5">>, <<"1">> }

\* What getComputedStyle reports as a background colour, with the parts it
\* was written from: a keyword, or the channels and the alpha.
ComputedColours ==
    { [backgroundColor |-> ColourText(r, g, b, a), display |-> "block",
       keyword |-> "", r |-> r, g |-> g, b |-> b, a |-> a] :
        r \in Channels, g \in Channels, b \in Channels, a \in Alphas }
    \cup
    { [backgroundColor |-> text, display |-> "block",
       keyword |-> "transparent", r |-> <<>>, g |-> <<>>, b |-> <<>>, a |-> <<>>] :
        text \in { Transparent, <<>> } }

InitStyles ==
    /\ NoAnalysis
    /\ config \in [measurementThreshold : {DefaultMeasurementThreshold},
                   maxDepth : {DefaultMaxDepth},
                   ignoreInvisibleElements : {TRUE}]
    /\ theElement \in ComputedColours
    /\ theWindow = Window
    /\ isVisible = FALSE
    /\ elementType = Null
    /\ styles = Null
    /\ optimal = Null
    /\ NoHook
    /\ NoPrimitive
    /\ NoGeneration

\* a call of DOMmeasurer.extractStyles(theElement), as the analyzer makes it
extractStylesCall ==
    /\ pc = "idle"
    /\ pc' = "extractStyles"
    /\ styles' = extractStyles(theElement)
    /\ UNCHANGED <<config, env, componentRef, timeoutOption, now, start,
                   lastDimensions, currentDimensions, dom, outcome>>
    /\ UNCHANGED <<theElement, theWindow, isVisible, elementType, optimal,
                   hookVars, primitiveVars, generatorVars>>

\* a call of StyleExtractor.extractNormalizedStyles on the same styles
extractNormalizedStylesCall ==
    /\ pc = "idle"
    /\ pc' = "extractNormalizedStyles"
    /\ styles' =
          IF theElement.backgroundColor # <<>>
          THEN [backgroundColor |->
                    normalizeColorOfStyleExtractor(theElement.backgroundColor),
                display |-> theElement.display]
          ELSE [display |-> theElement.display]
    /\ UNCHANGED <<config, env, componentRef, timeoutOption, now, start,
                   lastDimensions, currentDimensions, dom, outcome>>
    /\ UNCHANGED <<theElement, theWindow, isVisible, elementType, optimal,
                   hookVars, primitiveVars, generatorVars>>

NextStyles ==
    \/ extractStylesCall
    \/ extractNormalizedStylesCall

SpecStyles == InitStyles /\ [][NextStyles]_vars

\* the two hexadecimal digits of a channel
PairOf(channel) ==
    CASE channel = <<"0">> -> <<"0","0">>
      [] channel = <<"1","6">> -> <<"1","0">>
      [] channel = <<"2","5","5">> -> <<"f","f">>

\* the colour the claim expects for a computed colour
NormalisedColour(c) ==
    IF c.keyword = "transparent" \/ c.a = <<"0">>
    THEN <<"t","r","a","n","s","p","a","r","e","n","t">>
    ELSE IF c.a = <<>> \/ c.a = <<"1">>
    THEN <<"#">> \o PairOf(c.r) \o PairOf(c.g) \o PairOf(c.b)
    ELSE c.backgroundColor

\* C19 as claimed: the background colour of an analyzed element is
\* transparent for a transparent or zero-alpha colour, six hexadecimal
\* digits for an opaque one, and rgba(r, g, b, a) with its alpha otherwise.
C19_ColourNormalised ==
    pc = "extractStyles" =>
        styles.backgroundColor = NormalisedColour(theElement)

(***************************************************************************)
(* Properties of useAutoSkeleton and of the HOCs around it                 *)
(* (specifications SpecHook and SpecAdvanced)                              *)
(***************************************************************************)
\* C21: as long as the ref has never held an element and regenerateSkeleton
\* has not been called, the hook has started no pass, error is null,
\* isAnalyzing is false and SkeletonComponent is the fallback skeleton.
C21_NoRefNoAnalysis ==
    (~ attached /\ ~ regenerated) =>
        /\ passes = 0
        /\ inFlight = {}
        /\ error = Null
        /\ ~ isAnalyzing
        /\ lastCall # "autoAnalyze"
        /\ SkeletonComponent = "auto-skeleton-fallback"

\* C21 witness: a hook with a null ref, and one with an empty ref, has
\* rendered again, and nothing else has happened.
C21_Witness ==
    /\ hookRef \in {"null", "empty"}
    /\ ~ attached
    /\ ~ regenerated
    /\ lastCall = "render"
    /\ SkeletonComponent = "auto-skeleton-fallback"

\* C25 as claimed: while a pass of the hook is in flight, isAnalyzing is true.
C25_AnalyzingWhileInFlight ==
    inFlight # {} => isAnalyzing

\* C26 as claimed: error and analysisResult are never both set, and once
\* every pass has settled a result the hook holds is the one of the pass
\* started last.
C26_LatestPassWins ==
    /\ ~ (error # Null /\ analysisResult # Null)
    /\ (inFlight = {} /\ analysisResult # Null) =>
           analysisResult = resultOf(passes)

\* C27 as claimed: while the hook holds the error of a failed pass, a new
\* pass is started by regenerateSkeleton only, never by the effect.
C27_NoPassAfterFailure ==
    [][(error \in RejectionCodes /\ passes' > passes) =>
           lastCall' # "autoAnalyze"]_vars

\* C29 as claimed: the caller's onError has run once for each pass that
\* failed, and onAnalysisComplete once for each pass that resolved.
C29_OnErrorOncePerFailure ==
    /\ callbacks.onError = settled.rejected
    /\ callbacks.onAnalysisComplete = settled.resolved

\* C23 as claimed: between two passes that resolve, at most retryAttempts
\* retries are scheduled, the k-th of them 1000 ms x k after the failure,
\* and a pass that resolves leaves the retry count at 0.
C23_RetriesBounded ==
    /\ retries <= retryAttempts
    /\ \A t \in timers : t.delay = RetryDelayMs * t.nth
    /\ lastCall = "passResolved" => retryCount = 0

(***************************************************************************)
(* injectSkeletonCSS (src/src/components/AutoSkeleton.tsx)                 *)
(*                                                                         *)
(* A document is its head, the sequence of the elements in it; a server    *)
(* has no document.                                                        *)
(***************************************************************************)
HeadElement(tag, id, textContent) ==
    [tagName |-> tag, id |-> id, textContent |-> textContent]

\* what a head holds before anything is injected
HeadElements ==
    { HeadElement("title", "", "App"),
      HeadElement("meta", "", ""),
      HeadElement("style", "theme", "body { margin: 0 }") }

\* the style element that injectSkeletonCSS creates
SkeletonStyle ==
    HeadElement("style", "auto-skeleton-styles", "skeletonAnimationCSS")

RECURSIVE Heads(_)
Heads(n) ==
    IF n = 0 THEN { <<>> }
    ELSE Heads(n - 1) \cup
         { Append(h, e) : h \in { g \in Heads(n - 1) : Len(g) = n - 1 },
                          e \in HeadElements }

Documents == { Undefined } \cup { [head |-> h] : h \in Heads(MaxHead) }

\* Seeded fault: the style already there is not looked for.
existingStyleUnseen(doc) == FALSE

\* injectSkeletonCSS: document.getElementById('auto-skeleton-styles') is
\* not null
existingStyle(doc) ==
    \E i \in DOMAIN doc.head : doc.head[i].id = "auto-skeleton-styles"

\* injectSkeletonCSS: the document it leaves
injectSkeletonCSS(doc) ==
    IF doc = Undefined THEN doc
    ELSE IF existingStyle(doc) THEN doc
    ELSE [head |-> Append(doc.head, SkeletonStyle)]

InitInject ==
    /\ NoAnalyzerCall
    /\ NoHook
    /\ NoGeneration
    /\ document \in Documents
    /\ injections = 0
    /\ animationArg = [type |-> "none"]
    /\ elementCount = 0
    /\ optimized = [type |-> "none"]

\* a call of injectSkeletonCSS()
injectSkeletonCSSCall ==
    /\ injections < MaxInjections
    /\ injections' = injections + 1
    /\ document' = injectSkeletonCSS(document)
    /\ UNCHANGED <<animationArg, elementCount, optimized>>
    /\ UNCHANGED <<analyzerVars, elementVars, hookVars, generatorVars>>

NextInject == injectSkeletonCSSCall

SpecInject == InitInject /\ [][NextInject]_vars

\* the style elements of a head that carry the skeleton keyframes under the
\* id auto-skeleton-styles
InjectedStyles(doc) ==
    { i \in DOMAIN doc.head : doc.head[i] = SkeletonStyle }

\* C22: a call of injectSkeletonCSS leaves no document as it is, and leaves
\* in the head of a document exactly one style element auto-skeleton-styles
\* with the keyframes, whether it is the first call or a later one, and
\* what the head held before is still there, in front of it.
C22_InjectedOnce ==
    [][injections' > injections =>
          IF document = Undefined THEN document' = Undefined
          ELSE /\ Cardinality(InjectedStyles(document')) = 1
               /\ \A i \in DOMAIN document.head :
                      document'.head[i] = document.head[i]
               /\ injections > 0 => document' = document]_vars

\* C22 witness: injectSkeletonCSS has been called more than once on a
\* document whose head held something else, and the head holds one such
\* style element.
C22_Witness ==
    /\ injections > 1
    /\ document # Undefined
    /\ Len(document.head) > 1
    /\ Cardinality(InjectedStyles(document)) = 1

(***************************************************************************)
(* AnimationPresets.optimizeForPerformance (src/unnamed/part_000)          *)
(***************************************************************************)
\* animation.duration || 1500
durationOr(a, otherwise) ==
    IF "duration" \in DOMAIN a
    THEN (IF a.duration = 0 THEN otherwise ELSE a.duration)
    ELSE otherwise

\* AnimationPresets.optimizeForPerformance
optimizeForPerformance(a, count) ==
    IF count > 20
    THEN spread(a, [type |-> IF a.type = "wave" THEN "pulse" ELSE a.type,
                    duration |-> Min(durationOr(a, 1500), 1000)])
    ELSE IF count > 50
    THEN spread(a, [type |-> "none"])
    ELSE a

AnimationTypes == {"shimmer", "pulse", "wave", "fade", "none"}

AnimationArgs ==
    { [type |-> t] : t \in AnimationTypes } \cup
    { [type |-> t, duration |-> d] :
          t \in AnimationTypes, d \in {500, DefaultAnimationDuration} }

\* the element counts on both sides of the two thresholds
ElementCounts == {0, 20, 21, 50, 51, MaxElementCount}

InitOptimize ==
    /\ NoAnalyzerCall
    /\ NoHook
    /\ NoGeneration
    /\ document = Undefined
    /\ injections = 0
    /\ animationArg \in AnimationArgs
    /\ elementCount \in ElementCounts
    /\ optimized = [type |-> "none"]

\* a call of AnimationPresets.optimizeForPerformance(animation, elementCount)
optimizeForPerformanceCall ==
    /\ pc = "idle"
    /\ pc' = "optimizeForPerformance"
    /\ optimized' = optimizeForPerformance(animationArg, elementCount)
    /\ UNCHANGED <<config, env, componentRef, timeoutOption, now, start,
                   lastDimensions, currentDimensions, dom, outcome>>
    /\ UNCHANGED <<document, injections, animationArg, elementCount>>
    /\ UNCHANGED <<elementVars, hookVars, generatorVars>>

NextOptimize == optimizeForPerformanceCall

SpecOptimize == InitOptimize /\ [][NextOptimize]_vars

\* C24 as claimed: for more than 50 elements optimizeForPerformance returns
\* an animation of type none.
C24_DisabledAboveFifty ==
    (pc = "optimizeForPerformance" /\ elementCount > 50) =>
        optimized.type = "none"

(***************************************************************************)
(* Properties of the ids of a result (specification Spec)                  *)
(***************************************************************************)
\* C28 as claimed: two analyzed elements of one result that carry the same
\* id are the same element.
C28_IdsDistinct ==
    pc = "resolved" =>
        \A e, f \in reachable(outcome.elements) :
            e.id = f.id => e.node = f.node

(***************************************************************************)
(* Properties of the height of a text placeholder                          *)
(* (specification SpecConfigured)                                          *)
(***************************************************************************)
\* a text element with text, a positive width and a positive font size
MeasuredText(e) ==
    /\ "styles" \in DOMAIN e
    /\ e.elementType = "text"
    /\ Len(e.textContent) > 0
    /\ e.dimensions.width > 0
    /\ extractFontSize(e.styles.fontSize) > 0

\* C30 as claimed: the height of the config of such an element, when no
\* override replaces it, is a finite number of pixels, equal to
\* max(lineHeight, estimatedLines x lineHeight) whenever a line holds at
\* least one character.
C30_TextHeightFinite ==
    pc = "returned" =>
        \A k \in 1..Len(analysis) :
            (MeasuredText(analysis[k]) /\ PresentRanks(analysis[k]) = {}) =>
                LET e == analysis[k]
                    lineHeight == 12 * extractFontSize(e.styles.fontSize)
                    maxCharsPerLine ==
                        e.dimensions.width
                            \div (6 * extractFontSize(e.styles.fontSize))
                    height == generation.config[k].height
                IN  /\ height.unit = "px"
                    /\ maxCharsPerLine > 0 =>
                          height.value =
                              Max(lineHeight,
                                  ceilDiv(Len(e.textContent), maxCharsPerLine)
                                      * lineHeight)

====
